---------------------------- MODULE Spec2Model ----------------------------
(***************************************************************************)
(* Frota-MMA: expense tracker for truck fleets.                            *)
(*                                                                         *)
(* The model covers the /api/expenses route handlers in their revisions    *)
(*   - src/app/api/expenses/route.ts        (GET with months list, km)     *)
(*   - src/unnamed/part_001, lines 1..304   (GET with group=month series)  *)
(* the monthlySeries reduction of src/app/page.tsx, and the `expenses`     *)
(* table declared by SQL_SETUP.                                            *)
(*                                                                         *)
(* Representation.                                                         *)
(*   - A JavaScript string is a sequence of one-character strings, so      *)
(*     that split, slice, padStart, replace and === are computed.          *)
(*   - A JavaScript number is [k |-> "num", v |-> n] where n is the value  *)
(*     in tenths (10.5 is v = 105), or [k |-> "nan", v |-> 0].             *)
(*   - A JSON value is a record tagged by t: "undefined", "null",          *)
(*     "string" (field s) or "number" (field v, in tenths).                *)
(*   - A JavaScript Date that sits on the first day of a month at 00:00    *)
(*     UTC is [ok |-> TRUE, mi |-> year * 12 + monthIndex]; an Invalid     *)
(*     Date is [ok |-> FALSE, mi |-> 0].                                   *)
(***************************************************************************)
EXTENDS Integers, Sequences, FiniteSets, TLC

(***************************************************************************)
(* Strings and numbers of the JavaScript runtime                           *)
(***************************************************************************)

Digits == <<"0", "1", "2", "3", "4", "5", "6", "7", "8", "9">>

IsDigit(c) == \E i \in 1..10 : Digits[i] = c

DigitVal(c) == (CHOOSE i \in 1..10 : Digits[i] = c) - 1

AllDigits(s) == \A i \in 1..Len(s) : IsDigit(s[i])

RECURSIVE DigitsVal(_)
DigitsVal(s) ==
  IF s = <<>> THEN 0
  ELSE 10 * DigitsVal(SubSeq(s, 1, Len(s) - 1)) + DigitVal(s[Len(s)])

RECURSIVE ToDigits(_)
ToDigits(n) ==
  IF n < 10 THEN <<Digits[n + 1]>>
  ELSE Append(ToDigits(n \div 10), Digits[(n % 10) + 1])

RECURSIVE Zeros(_)
Zeros(k) == IF k <= 0 THEN <<>> ELSE <<"0">> \o Zeros(k - 1)

\* String(n).padStart(w, "0") for an integer n >= 0
PadStart(n, w) == Zeros(w - Len(ToDigits(n))) \o ToDigits(n)

\* s.slice(0, n)
Slice0(s, n) == SubSeq(s, 1, IF Len(s) < n THEN Len(s) ELSE n)

Num(n) == [k |-> "num", v |-> n]

NaN == [k |-> "nan", v |-> 0]

\* the integer n as a JavaScript number, which the model counts in tenths
Units(n) == n * 10

IsFiniteNum(x) == x.k = "num"

\* the positions of character c in s
Positions(s, c) == {i \in 1..Len(s) : s[i] = c}

\* Number(s) of a string: "" is 0, [-]digits[.digit] is a number, else NaN
NumberOfStr(s) ==
  IF s = <<>> THEN Num(0)
  ELSE LET neg  == s[1] = "-"
           body == IF neg THEN Tail(s) ELSE s
           sign == IF neg THEN -1 ELSE 1
           dots == Positions(body, ".")
       IN  IF body # <<>> /\ AllDigits(body)
             THEN Num(sign * Units(DigitsVal(body)))
           ELSE IF Cardinality(dots) = 1
             THEN LET p    == CHOOSE i \in dots : TRUE
                      int  == SubSeq(body, 1, p - 1)
                      frac == SubSeq(body, p + 1, Len(body))
                  IN  IF int # <<>> /\ AllDigits(int) /\ AllDigits(frac)
                         /\ Len(frac) <= 1
                        THEN Num(sign * (Units(DigitsVal(int)) + DigitsVal(frac)))
                        ELSE NaN
           ELSE NaN

JUndefined == [t |-> "undefined"]

JNull == [t |-> "null"]

JStr(s) == [t |-> "string", s |-> s]

JNum(v) == [t |-> "number", v |-> v]

\* Number(x) of a JSON value
ToNumber(x) ==
  CASE x.t = "undefined" -> NaN
    [] x.t = "null"      -> Num(0)
    [] x.t = "string"    -> NumberOfStr(x.s)
    [] x.t = "number"    -> Num(x.v)

\* String(n) of a number counted in tenths
NumToStr(v) ==
  LET a == IF v < 0 THEN -v ELSE v
      i == ToDigits(a \div 10)
      f == IF a % 10 = 0 THEN <<>> ELSE <<".">> \o ToDigits(a % 10)
  IN  (IF v < 0 THEN <<"-">> ELSE <<>>) \o i \o f

\* String(x) of a JSON value that is a string or a number
ToStr(x) == IF x.t = "string" THEN x.s ELSE NumToStr(x.v)

\* !x of a JSON value
Falsy(x) ==
  \/ x.t \in {"undefined", "null"}
  \/ x.t = "string" /\ x.s = <<>>
  \/ x.t = "number" /\ x.v = 0

\* s.replace(",", "."): the first comma only
ReplaceComma(s) ==
  LET ps == Positions(s, ",")
  IN  IF ps = {} THEN s
      ELSE LET p == CHOOSE i \in ps : \A j \in ps : i <= j
           IN  [i \in 1..Len(s) |-> IF i = p THEN "." ELSE s[i]]

\* s.split("-")
RECURSIVE SplitDash(_)
SplitDash(s) ==
  LET ps == Positions(s, "-")
  IN  IF ps = {} THEN <<s>>
      ELSE LET p == CHOOSE i \in ps : \A j \in ps : i <= j
           IN  <<SubSeq(s, 1, p - 1)>> \o SplitDash(SubSeq(s, p + 1, Len(s)))

\* month.split("-").map(Number), destructured into its first two elements;
\* an element that is missing is undefined
SplitParts(s) ==
  LET parts == SplitDash(s)
  IN  [a |-> NumberOfStr(parts[1]),
       b |-> IF Len(parts) >= 2 THEN NumberOfStr(parts[2]) ELSE NaN,
       hasB |-> Len(parts) >= 2]

(***************************************************************************)
(* Dates of the JavaScript runtime                                         *)
(***************************************************************************)

InvalidDate == [ok |-> FALSE, mi |-> 0]

\* ToIntegerOrInfinity of a finite number counted in tenths: truncation
Trunc(v) == IF v >= 0 THEN v \div 10 ELSE -((-v) \div 10)

\* new Date(Date.UTC(year, month, 1)): a year of 0..99 is taken as 1900 + year
DateUTC(year, month) ==
  IF year.k # "num" \/ month.k # "num" THEN InvalidDate
  ELSE LET y  == Trunc(year.v)
           yy == IF y >= 0 /\ y <= 99 THEN 1900 + y ELSE y
       IN  [ok |-> TRUE, mi |-> yy * 12 + Trunc(month.v)]

getUTCFullYear(d) == d.mi \div 12

getUTCMonth(d) == d.mi % 12

\* d.toISOString().slice(0, 10) of a valid date on the first day of a month:
\* years 0..9999 print as YYYY, any other as a sign and six digits
IsoDate10(d) ==
  LET y == getUTCFullYear(d)
      m == PadStart(getUTCMonth(d) + 1, 2)
  IN  IF y >= 0 /\ y <= 9999
        THEN PadStart(y, 4) \o <<"-">> \o m \o <<"-", "0", "1">>
        ELSE Slice0((IF y < 0 THEN <<"-">> ELSE <<"+">>)
                      \o PadStart(IF y < 0 THEN -y ELSE y, 6)
                      \o <<"-">> \o m \o <<"-", "0", "1">>, 10)


\* the last month a Date can hold: TimeClip ends on 13 September 275760
MaxDateMi == 275760 * 12 + 8

\* TimeClip applied to the first day of month mi
ClipDate(mi) ==
  IF mi >= -(271821 * 12) + 4 /\ mi <= MaxDateMi
    THEN [ok |-> TRUE, mi |-> mi] ELSE InvalidDate

\* String(n) of an integer
IntToStr(n) == IF n < 0 THEN <<"-">> \o ToDigits(-n) ELSE ToDigits(n)

(***************************************************************************)
(* Pure functions of the route                                             *)
(***************************************************************************)

\* normalizeMonthRange returns null, or {start, end}, or throws the
\* RangeError of toISOString() on an Invalid Date
NormNull == [kind |-> "null", start |-> <<>>, end |-> <<>>]

NormThrow == [kind |-> "throw", start |-> <<>>, end |-> <<>>]

normalizeMonthRange(month) ==
  LET p          == SplitParts(month)
      year       == p.a
      monthValue == p.b
  IN  IF \/ year.k = "nan" \/ year.v = 0
         \/ monthValue.k = "nan" \/ monthValue.v = 0
         \/ monthValue.v < Units(1) \/ monthValue.v > Units(12)
        THEN NormNull
      ELSE LET d0    == DateUTC(year, Num(monthValue.v - Units(1)))
               d1    == DateUTC(year, monthValue)
               start == IF d0.ok THEN ClipDate(d0.mi) ELSE d0
               end   == IF d1.ok THEN ClipDate(d1.mi) ELSE d1
           IN  IF ~start.ok \/ ~end.ok THEN NormThrow
               ELSE [kind |-> "range", start |-> IsoDate10(start),
                     end |-> IsoDate10(end)]

\* String(dateString).slice(0, 7)
monthKey(dateString) == Slice0(dateString, 7)

toMonthStartUtc(yyyyMm) ==
  LET p == SplitParts(yyyyMm)
      d == DateUTC(p.a, IF p.b.k = "num" THEN Num(p.b.v - Units(1)) ELSE NaN)
  IN  IF d.ok THEN ClipDate(d.mi) ELSE d

\* `${y}-${m}`: the year is not padded
monthStrFromDateUtc(d) ==
  IF ~d.ok THEN <<"N", "a", "N", "-", "N", "a", "N">>
  ELSE IntToStr(getUTCFullYear(d)) \o <<"-">> \o PadStart(getUTCMonth(d) + 1, 2)

\* part_001: new Date(Date.UTC(date.getUTCFullYear(), date.getUTCMonth() + months, 1))
addMonthsUtc(date, months) ==
  IF ~date.ok THEN InvalidDate
  ELSE LET d == DateUTC(Num(Units(getUTCFullYear(date))),
                        Num(Units(getUTCMonth(date) + months)))
       IN  IF d.ok THEN ClipDate(d.mi) ELSE d

\* route.ts: d.setUTCMonth(d.getUTCMonth() + months) on a copy
addMonthsUtcSet(date, months) ==
  IF ~date.ok THEN InvalidDate ELSE ClipDate(date.mi + months)

\* the iteration cap of buildMonthSeries
MonthCap == 600

\* One iteration of `for (let i = 0; i < 600; i++) { ... }`; st.done is set
\* when the loop has ended, by its guard or by its break.
SeriesStep(st, endMonth) ==
  IF st.done THEN st
  ELSE IF ~(st.i < MonthCap) THEN [st EXCEPT !.done = TRUE]
  ELSE LET key == monthStrFromDateUtc(st.cur)
       IN  IF key = endMonth
             THEN [st EXCEPT !.out = Append(@, key), !.done = TRUE]
             ELSE [cur |-> addMonthsUtc(st.cur, 1), i |-> st.i + 1,
                   out |-> Append(st.out, key), done |-> FALSE]

\* n iterations in a row, split in halves to keep the evaluation shallow
RECURSIVE SeriesRun(_, _, _)
SeriesRun(st, endMonth, n) ==
  IF st.done \/ n <= 0 THEN st
  ELSE IF n = 1 THEN SeriesStep(st, endMonth)
  ELSE SeriesRun(SeriesRun(st, endMonth, n \div 2), endMonth, n - (n \div 2))

buildMonthSeries(startMonth, endMonth) ==
  SeriesRun([cur |-> toMonthStartUtc(startMonth), i |-> 0, out |-> <<>>,
             done |-> FALSE], endMonth, MonthCap + 1).out

\* One iteration of route.ts GET's
\*   while (cur.getTime() <= end.getTime()) { months.push(...); cur = add 1 }
\* a comparison with the NaN time of an Invalid Date is false
MonthsStep(st, end) ==
  IF st.done THEN st
  ELSE IF ~(st.cur.ok /\ end.ok /\ st.cur.mi <= end.mi)
    THEN [st EXCEPT !.done = TRUE]
  ELSE [cur |-> addMonthsUtcSet(st.cur, 1),
        out |-> Append(st.out, monthStrFromDateUtc(st.cur)), done |-> FALSE]

RECURSIVE MonthsRun(_, _, _)
MonthsRun(st, end, n) ==
  IF st.done \/ n <= 0 THEN st
  ELSE IF n = 1 THEN MonthsStep(st, end)
  ELSE MonthsRun(MonthsRun(st, end, n \div 2), end, n - (n \div 2))

\* The loop has no counter: it runs until cur passes end, which takes
\* end - cur + 1 iterations and one more evaluation of its guard.
MonthsWalk(startMonth, endMonth) ==
  LET cur == toMonthStartUtc(startMonth)
      end == toMonthStartUtc(endMonth)
      n   == IF cur.ok /\ end.ok /\ cur.mi <= end.mi
               THEN end.mi - cur.mi + 2 ELSE 1
  IN  MonthsRun([cur |-> cur, out |-> <<>>, done |-> FALSE], end, n).out

(***************************************************************************)
(* The expenses table (SQL_SETUP) behind the storage client                *)
(***************************************************************************)

FUEL == <<"f", "u", "e", "l">>

MAINTENANCE == <<"m", "a", "i", "n", "t", "e", "n", "a", "n", "c", "e">>

CATEGORY_VALUES == {FUEL, MAINTENANCE}

\* /^\d{4}-\d{2}-\d{2}$/.test(s)
IsDateShape(s) ==
  /\ Len(s) = 10
  /\ \A i \in {1, 2, 3, 4, 6, 7, 9, 10} : IsDigit(s[i])
  /\ s[5] = "-" /\ s[8] = "-"

IsLeap(y) == (y % 4 = 0 /\ y % 100 # 0) \/ y % 400 = 0

DaysInMonth(y, m) ==
  IF m = 2 THEN (IF IsLeap(y) THEN 29 ELSE 28)
  ELSE IF m \in {4, 6, 9, 11} THEN 30 ELSE 31

\* The input conversion of a `date` column, for the texts the handlers send:
\* YYYY-MM-DD of a day of the calendar is a date, any other text is refused.
PgDateIn(s) ==
  IF ~IsDateShape(s) THEN [ok |-> FALSE, date |-> [y |-> 0, m |-> 0, d |-> 0]]
  ELSE LET y == DigitsVal(SubSeq(s, 1, 4))
           m == DigitsVal(SubSeq(s, 6, 7))
           d == DigitsVal(SubSeq(s, 9, 10))
       IN  [ok |-> y >= 1 /\ m >= 1 /\ m <= 12 /\ d >= 1 /\ d <= DaysInMonth(y, m),
            date |-> [y |-> y, m |-> m, d |-> d]]

\* The output of a `date` column: "Supabase retorna date como string (YYYY-MM-DD)"
PgDateOut(date) ==
  PadStart(date.y, 4) \o <<"-">> \o PadStart(date.m, 2) \o <<"-">> \o PadStart(date.d, 2)

\* the order of a `date` column
DateOrd(date) == (date.y * 12 + (date.m - 1)) * 31 + (date.d - 1)

\* The input conversion of a `numeric` column from a JSON value: a number is
\* itself, a text is converted when it is a numeral or the text NaN (the
\* not-a-number value of the type), a missing or null value is NULL.
PgNumericIn(x) ==
  CASE x.t = "number" -> [ok |-> TRUE, null |-> FALSE, n |-> Num(x.v)]
    [] x.t = "string" ->
         LET n == NumberOfStr(x.s)
         IN  IF x.s = <<"N", "a", "N">> THEN [ok |-> TRUE, null |-> FALSE, n |-> NaN]
             ELSE [ok |-> x.s # <<>> /\ n.k = "num", null |-> FALSE, n |-> n]
    [] OTHER -> [ok |-> TRUE, null |-> TRUE, n |-> Num(0)]

\* `amount > 0` as the type numeric compares: NaN is greater than every number
PgPositive(n) == n.k = "nan" \/ n.v > 0

PgOk(row) == [ok |-> TRUE, error |-> "", row |-> row]

PgError(message) == [ok |-> FALSE, error |-> message, row |-> <<>>]

\* Conversion and constraints of a row written by insert or update:
\* the column types, then NOT NULL, then the CHECK constraints of SQL_SETUP.
\* `old` gives id, fleet_code and created_at when they are not in the payload.
PgRow(payload, old) ==
  LET date   == PgDateIn(payload.date.s)
      amount == PgNumericIn(payload.amount)
  IN  IF payload.date.t # "string" \/ ~date.ok
        THEN PgError("invalid input for type date")
      ELSE IF ~amount.ok THEN PgError("invalid input syntax for type numeric")
      ELSE IF amount.null THEN PgError("null value in column amount violates not-null constraint")
      ELSE IF ~(payload.km.k = "num" /\ payload.km.v >= 0)
        THEN PgError("new row violates check constraint expenses_km_check")
      ELSE IF payload.category.s \notin CATEGORY_VALUES
        THEN PgError("new row violates check constraint expenses_category_check")
      ELSE IF ~PgPositive(amount.n)
        THEN PgError("new row violates check constraint expenses_amount_check")
      ELSE PgOk([id |-> old.id,
                 fleet_code |-> old.fleet_code,
                 date |-> date.date,
                 truck_plate |-> payload.truck_plate.s,
                 km |-> payload.km.v,
                 category |-> payload.category.s,
                 amount |-> amount.n,
                 liters |-> payload.liters,
                 invoice_number |-> payload.invoice_number,
                 note |-> payload.note,
                 created_at |-> old.created_at])

\* a row as the client library returns it: the date as text
RowOut(row) == [row EXCEPT !.date = PgDateOut(@)]

\* the message of a storage call that fails for a reason outside the request
StorageDown == "storage call failed"

\* an order by date descending that breaks ties by created_at ascending
NewerOldestFirst(a, b) ==
  \/ DateOrd(a.date) > DateOrd(b.date)
  \/ DateOrd(a.date) = DateOrd(b.date) /\ a.created_at < b.created_at

\* .order("date", desc).order("created_at", desc) over a set of rows
Newer(a, b) ==
  \/ DateOrd(a.date) > DateOrd(b.date)
  \/ DateOrd(a.date) = DateOrd(b.date) /\ a.created_at > b.created_at

RECURSIVE OrderDesc(_)
OrderDesc(rows) ==
  IF rows = {} THEN <<>>
  ELSE LET top == CHOOSE r \in rows : \A q \in rows \ {r} : Newer(r, q)
       IN  <<RowOut(top)>> \o OrderDesc(rows \ {top})

\* select("date").order("date", ascending).limit(1): data?.[0]?.date, if any
MinDate(rows) ==
  IF rows = {} THEN <<>>
  ELSE PgDateOut((CHOOSE r \in rows : \A q \in rows : DateOrd(r.date) <= DateOrd(q.date)).date)

MaxDate(rows) ==
  IF rows = {} THEN <<>>
  ELSE PgDateOut((CHOOSE r \in rows : \A q \in rows : DateOrd(r.date) >= DateOrd(q.date)).date)

(***************************************************************************)
(* State                                                                   *)
(***************************************************************************)

VARIABLES
  expenses,   \* the rows of the expenses table
  nextId,     \* the number of the next row: its id and its created_at
  req,        \* the request being answered, [op |-> "none"] when there is none
  resp,       \* the response to req, on its way to the caller
  inflight,   \* the handlers that run concurrently, each at its await
  page        \* the state of the page in one browser

vars == <<expenses, nextId, req, resp, inflight, page>>

\* the number of rows ever inserted
MaxId == 2

NoReq == [op |-> "none"]

\* NextResponse.json(...): the status, the error message ("" when there is
\* none), data and months (<<>> when absent), and the number of storage calls
\* the handler issued before it answered
Response(op, status, error, data, months, calls) ==
  [op |-> op, status |-> status, error |-> error, data |-> data,
   months |-> months, calls |-> calls]

NoResp == Response("none", 0, "", <<>>, <<>>, 0)

\* errorResponse(message, status = 400)
errorResponse(op, message, status, calls) ==
  Response(op, status, message, <<>>, <<>>, calls)

\* what the framework answers when a handler throws
Unhandled == "Internal Server Error"

(***************************************************************************)
(* route.ts: validation of POST and PUT                                    *)
(* (the messages are spelled without their accents)                        *)
(***************************************************************************)

MsgId == "id e obrigatorio"

MsgFleet == "fleetCode e obrigatorio"

MsgDate == "date invalida"

MsgPlate == "truck_plate e obrigatorio"

MsgKm == "km deve ser um numero maior ou igual a zero"

MsgCategory == "category invalida"

MsgAmount == "amount deve ser maior que zero"

MsgLiters == "liters deve ser maior que zero"

MsgMonth == "month invalido. Use YYYY-MM"

\* route.ts isValidDate
isValidDate(dateString) ==
  IF dateString.t # "string" THEN FALSE ELSE IsDateShape(dateString.s)

\* x === undefined || x === null || x === "" ? null : Number(String(x).replace(",", "."))
\* null is [null |-> TRUE]
CoerceOptional(x) ==
  IF x.t \in {"undefined", "null"} \/ (x.t = "string" /\ x.s = <<>>)
    THEN [null |-> TRUE, n |-> NaN]
    ELSE [null |-> FALSE, n |-> NumberOfStr(ReplaceComma(ToStr(x)))]

kmValue(body) == CoerceOptional(body.km)

litersValue(body) == CoerceOptional(body.liters)

\* kmValue === null || !Number.isFinite(kmValue) || kmValue < 0
KmRejected(body) ==
  LET km == kmValue(body)
  IN  km.null \/ ~IsFiniteNum(km.n) \/ km.n.v < 0

\* Number(amount) <= 0: false when Number(amount) is NaN
AmountRejected(body) ==
  LET a == ToNumber(body.amount)
  IN  a.k = "num" /\ a.v <= 0

\* litersValue !== null && (!Number.isFinite(litersValue) || litersValue <= 0)
LitersRejected(body) ==
  LET l == litersValue(body)
  IN  ~l.null /\ (~IsFiniteNum(l.n) \/ l.n.v <= 0)

\* !CATEGORY_VALUES.has(category)
CategoryRejected(body) ==
  ~(body.category.t = "string" /\ body.category.s \in CATEGORY_VALUES)

\* The checks of POST in their order; "" when all pass.
Validate(body) ==
  IF Falsy(body.fleetCode) THEN MsgFleet
  ELSE IF ~isValidDate(body.date) THEN MsgDate
  ELSE IF Falsy(body.truckPlate) THEN MsgPlate
  ELSE IF KmRejected(body) THEN MsgKm
  ELSE IF CategoryRejected(body) THEN MsgCategory
  ELSE IF AmountRejected(body) THEN MsgAmount
  ELSE IF LitersRejected(body) THEN MsgLiters
  ELSE ""

\* The checks of PUT: id first, then those of POST.
ValidatePut(body) == IF Falsy(body.id) THEN MsgId ELSE Validate(body)

\* s.trim()
RECURSIVE TrimStart(_)
TrimStart(s) == IF s # <<>> /\ s[1] = " " THEN TrimStart(Tail(s)) ELSE s

RECURSIVE TrimEnd(_)
TrimEnd(s) ==
  IF s # <<>> /\ s[Len(s)] = " " THEN TrimEnd(SubSeq(s, 1, Len(s) - 1)) ELSE s

Trim(s) == TrimEnd(TrimStart(s))

\* category === "fuel" ? litersValue : null
\* a payload that keeps the liters of every category
LitersStoredAnyCategory(body) ==
  IF ~litersValue(body).null THEN JNum(litersValue(body).n.v) ELSE JNull

LitersStored(body) ==
  IF body.category.s = FUEL /\ ~litersValue(body).null
    THEN JNum(litersValue(body).n.v) ELSE JNull

\* insertPayload and updatePayload: the columns sent to the storage
Payload(body) ==
  [date           |-> body.date,
   truck_plate    |-> body.truckPlate,
   km             |-> kmValue(body).n,
   category       |-> body.category,
   amount         |-> body.amount,
   liters         |-> LitersStored(body),
   invoice_number |-> IF Falsy(body.invoiceNumber) THEN JNull
                      ELSE JStr(Trim(ToStr(body.invoiceNumber))),
   note           |-> IF Falsy(body.note) THEN JNull ELSE body.note]

(***************************************************************************)
(* route.ts: the handlers                                                  *)
(***************************************************************************)

Outcome(r, rows, id) == [resp |-> r, expenses |-> rows, nextId |-> id]

\* the rows a filter .eq("id", id).eq("fleet_code", fleetCode) selects
Owned(id, fleetCode) ==
  {r \in expenses : r.id = id.s /\ r.fleet_code = fleetCode.s}

\* insert(payload).select("*").single() and the response made of its result
Insert(body, fail) ==
  LET res == IF fail THEN PgError(StorageDown)
             ELSE PgRow(Payload(body),
                        [id |-> ToDigits(nextId),
                         fleet_code |-> body.fleetCode.s,
                         created_at |-> nextId])
  IN  IF ~res.ok
        THEN Outcome(errorResponse("POST", res.error, 500, 1), expenses, nextId)
        ELSE Outcome(Response("POST", 201, "", <<RowOut(res.row)>>, <<>>, 1),
                     expenses \cup {res.row}, nextId + 1)

\* a POST that checks liters only after the row, without liters, is inserted
POSTOutcomeLateLiters(body, fail) ==
  LET err == Validate(body)
  IN  IF err # "" /\ err # MsgLiters
        THEN Outcome(errorResponse("POST", err, 400, 0), expenses, nextId)
      ELSE IF err = MsgLiters
        THEN LET ins == Insert([body EXCEPT !.liters = JUndefined], fail)
             IN  Outcome(errorResponse("POST", MsgLiters, 400, 1),
                         ins.expenses, ins.nextId)
      ELSE Insert(body, fail)

\* POST: validation, then one insert
POSTOutcome(body, fail) ==
  LET err == Validate(body)
  IN  IF err # "" THEN Outcome(errorResponse("POST", err, 400, 0), expenses, nextId)
      ELSE Insert(body, fail)

\* what .single() reports when the statement returns no row
NoRows == "JSON object requested, multiple (or no) rows returned"

\* a PUT that patches: an omitted liters, invoiceNumber or note keeps its old value
PUTOutcomePatch(body, fail) ==
  LET err == ValidatePut(body)
  IN  IF err # "" THEN Outcome(errorResponse("PUT", err, 400, 0), expenses, nextId)
      ELSE IF fail THEN Outcome(errorResponse("PUT", StorageDown, 500, 1), expenses, nextId)
      ELSE IF Owned(body.id, body.fleetCode) = {}
        THEN Outcome(errorResponse("PUT", NoRows, 500, 1), expenses, nextId)
      ELSE LET old == CHOOSE r \in Owned(body.id, body.fleetCode) : TRUE
               res == PgRow(Payload(body), old)
               row == [res.row EXCEPT
                         !.liters = IF body.liters = JUndefined THEN old.liters ELSE @,
                         !.invoice_number = IF body.invoiceNumber = JUndefined
                                              THEN old.invoice_number ELSE @,
                         !.note = IF body.note = JUndefined THEN old.note ELSE @]
           IN  IF ~res.ok
                 THEN Outcome(errorResponse("PUT", res.error, 500, 1), expenses, nextId)
                 ELSE Outcome(Response("PUT", 200, "", <<RowOut(row)>>, <<>>, 1),
                              (expenses \ {old}) \cup {row}, nextId)

\* PUT: validation, then one update(...).eq(id).eq(fleet_code).select("*").single()
PUTOutcome(body, fail) ==
  LET err == ValidatePut(body)
  IN  IF err # "" THEN Outcome(errorResponse("PUT", err, 400, 0), expenses, nextId)
      ELSE IF fail THEN Outcome(errorResponse("PUT", StorageDown, 500, 1), expenses, nextId)
      ELSE IF Owned(body.id, body.fleetCode) = {}
        THEN Outcome(errorResponse("PUT", NoRows, 500, 1), expenses, nextId)
      ELSE LET old == CHOOSE r \in Owned(body.id, body.fleetCode) : TRUE
               res == PgRow(Payload(body), old)
           IN  IF ~res.ok
                 THEN Outcome(errorResponse("PUT", res.error, 500, 1), expenses, nextId)
                 ELSE Outcome(Response("PUT", 200, "", <<RowOut(res.row)>>, <<>>, 1),
                              (expenses \ {old}) \cup {res.row}, nextId)

\* a DELETE that sends a failed delete a second time, which succeeds
DELETEOutcomeRetry(body, fail) ==
  IF Falsy(body.id) THEN Outcome(errorResponse("DELETE", MsgId, 400, 0), expenses, nextId)
  ELSE IF Falsy(body.fleetCode)
    THEN Outcome(errorResponse("DELETE", MsgFleet, 400, 0), expenses, nextId)
  ELSE Outcome(Response("DELETE", 200, "", <<>>, <<>>, IF fail THEN 2 ELSE 1),
               expenses \ Owned(body.id, body.fleetCode), nextId)

\* a DELETE that answers without deleting
DELETEOutcomeNoop(body, fail) ==
  IF Falsy(body.id) THEN Outcome(errorResponse("DELETE", MsgId, 400, 0), expenses, nextId)
  ELSE IF Falsy(body.fleetCode)
    THEN Outcome(errorResponse("DELETE", MsgFleet, 400, 0), expenses, nextId)
  ELSE IF fail THEN Outcome(errorResponse("DELETE", StorageDown, 500, 1), expenses, nextId)
  ELSE Outcome(Response("DELETE", 200, "", <<>>, <<>>, 1), expenses, nextId)

\* a DELETE that filters on the id alone
DELETEOutcomeById(body, fail) ==
  IF Falsy(body.id) THEN Outcome(errorResponse("DELETE", MsgId, 400, 0), expenses, nextId)
  ELSE IF Falsy(body.fleetCode)
    THEN Outcome(errorResponse("DELETE", MsgFleet, 400, 0), expenses, nextId)
  ELSE IF fail THEN Outcome(errorResponse("DELETE", StorageDown, 500, 1), expenses, nextId)
  ELSE Outcome(Response("DELETE", 200, "", <<>>, <<>>, 1),
               {r \in expenses : r.id # body.id.s}, nextId)

\* DELETE: the two presence checks, then one delete().eq(id).eq(fleet_code)
DELETEOutcome(body, fail) ==
  IF Falsy(body.id) THEN Outcome(errorResponse("DELETE", MsgId, 400, 0), expenses, nextId)
  ELSE IF Falsy(body.fleetCode)
    THEN Outcome(errorResponse("DELETE", MsgFleet, 400, 0), expenses, nextId)
  ELSE IF fail THEN Outcome(errorResponse("DELETE", StorageDown, 500, 1), expenses, nextId)
  ELSE Outcome(Response("DELETE", 200, "", <<>>, <<>>, 1),
               expenses \ Owned(body.id, body.fleetCode), nextId)

MONTH == <<"M", "O", "N", "T", "H">>

\* the rows of fleet code f whose date is in [start, end)
InRange(f, start, end) ==
  {r \in expenses : /\ r.fleet_code = f
                    /\ DateOrd(r.date) >= DateOrd(start)
                    /\ DateOrd(r.date) < DateOrd(end)}

\* a base query without the filter on fleet_code
OfFleetAny(f) == expenses

OfFleet(f) == {r \in expenses : r.fleet_code = f}

\* GET of route.ts after its three queries succeeded (lines 169..188): data is
\* expensesRes.data, minDate and maxDate are the dates of minRes and maxRes,
\* <<>> when the query returned no row
GETRespond(data, minDate, maxDate) ==
  IF minDate = <<>> \/ maxDate = <<>> THEN Response("GET", 200, "", <<>>, <<>>, 3)
  ELSE Response("GET", 200, "", data, MonthsWalk(monthKey(minDate), monthKey(maxDate)), 3)

\* GET of route.ts: q.fleetCode, q.month and q.mode are the search parameters
\* it reads (JNull when absent), q.truck one it does not read; fail names the
\* one of the three queries that fails.
GETOutcome(q, fail) ==
  IF Falsy(q.fleetCode) THEN errorResponse("GET", MsgFleet, 400, 0)
  ELSE LET monthRange == IF Falsy(q.month) THEN NormNull
                         ELSE normalizeMonthRange(q.month.s)
           filtered   == q.mode.t = "string" /\ q.mode.s = MONTH
                         /\ monthRange.kind = "range"
           start      == PgDateIn(monthRange.start)
           end        == PgDateIn(monthRange.end)
           rows       == IF filtered
                           THEN InRange(q.fleetCode.s, start.date, end.date)
                           ELSE OfFleet(q.fleetCode.s)
       IN  IF monthRange.kind = "throw" THEN errorResponse("GET", Unhandled, 500, 0)
           ELSE IF filtered /\ (~start.ok \/ ~end.ok)
             THEN errorResponse("GET", "invalid input for type date", 500, 3)
           ELSE IF fail # "none" THEN errorResponse("GET", StorageDown, 500, 3)
           ELSE GETRespond(OrderDesc(rows), MinDate(rows), MaxDate(rows))

(***************************************************************************)
(* Number arithmetic of the runtime: IEEE 754 binary64, for positive       *)
(* values.  A value is 0 or m * 2^e with m a sequence of 53 bits, the      *)
(* first one 1, the most significant bit first.                            *)
(***************************************************************************)

MantissaBits == 53

\* the number of fraction bits computed before rounding a decimal
FractionBits == 64

DZero == [zero |-> TRUE, m |-> <<>>, e |-> 0]

ZeroBits(k) == [i \in 1..k |-> 0]

\* the binary digits of a natural number, <<>> for 0
RECURSIVE BitsOfNat(_)
BitsOfNat(n) == IF n = 0 THEN <<>> ELSE BitsOfNat(n \div 2) \o <<n % 2>>

\* 2^j modulo 10
PowerOfTwoMod10(j) == IF j = 0 THEN 1 ELSE <<2, 4, 8, 6>>[((j - 1) % 4) + 1]

\* the first k binary digits of the fraction r / 10, and the remainder left
FracBits(r, k) ==
  [bits |-> [i \in 1..k |-> (2 * ((r * PowerOfTwoMod10(i - 1)) % 10)) \div 10],
   r    |-> (r * PowerOfTwoMod10(k)) % 10]

RECURSIVE StripZeros(_)
StripZeros(bits) ==
  IF bits # <<>> /\ bits[1] = 0 THEN StripZeros(Tail(bits)) ELSE bits

\* a + b for bit sequences: the carry into position i comes from a position
\* j to its right where both bits are 1, through positions where one is
AddBits(a, b) ==
  LET n == IF Len(a) > Len(b) THEN Len(a) ELSE Len(b)
      x == ZeroBits(n - Len(a)) \o a
      y == ZeroBits(n - Len(b)) \o b
      carry(i) == \E j \in (i + 1)..n :
                    /\ x[j] + y[j] = 2
                    /\ \A k \in (i + 1)..(j - 1) : x[k] + y[k] = 1
      sum == [i \in 1..n |-> (x[i] + y[i] + (IF carry(i) THEN 1 ELSE 0)) % 2]
  IN  IF carry(0) THEN <<1>> \o sum ELSE sum

\* bits * 2^e, plus less than one unit of the last bit when sticky, rounded
\* to 53 bits, to nearest and on a tie to the even mantissa
RoundToDouble(bits, e, sticky) ==
  IF bits = <<>> THEN DZero
  ELSE IF Len(bits) <= MantissaBits
    THEN [zero |-> FALSE, m |-> bits \o ZeroBits(MantissaBits - Len(bits)),
          e |-> e - (MantissaBits - Len(bits))]
  ELSE LET keep  == SubSeq(bits, 1, MantissaBits)
           rest  == SubSeq(bits, MantissaBits + 1, Len(bits))
           below == sticky \/ \E i \in 2..Len(rest) : rest[i] = 1
           up    == rest[1] = 1 /\ (below \/ keep[MantissaBits] = 1)
           m     == IF up THEN AddBits(keep, <<1>>) ELSE keep
       IN  IF Len(m) > MantissaBits
             THEN [zero |-> FALSE, m |-> SubSeq(m, 1, MantissaBits),
                   e |-> e + Len(rest) + 1]
             ELSE [zero |-> FALSE, m |-> m, e |-> e + Len(rest)]

\* Number(amount) for a stored numeric of n tenths, n >= 0: the double
\* nearest to n / 10
DoubleOfTenths(n) ==
  LET f == FracBits(n % 10, FractionBits)
  IN  RoundToDouble(StripZeros(BitsOfNat(n \div 10) \o f.bits), -FractionBits, f.r # 0)

\* x + y of two doubles that are zero or positive
DoubleAdd(x, y) ==
  IF x.zero THEN y
  ELSE IF y.zero THEN x
  ELSE LET e == IF x.e < y.e THEN x.e ELSE y.e
       IN  RoundToDouble(AddBits(x.m \o ZeroBits(x.e - e), y.m \o ZeroBits(y.e - e)),
                         e, FALSE)

(***************************************************************************)
(* part_001 (lines 1..304): the revision whose GET builds the series       *)
(***************************************************************************)

\* part_001 isValidDate: !!value and new Date(value) is a valid Date.  For a
\* text of the form YYYY-MM-DD the runtime accepts months 1..12 and days
\* 1..31; other texts are outside the inputs of the model.
isValidDateP1(value) ==
  /\ value.t = "string"
  /\ IsDateShape(value.s)
  /\ DigitsVal(SubSeq(value.s, 6, 7)) \in 1..12
  /\ DigitsVal(SubSeq(value.s, 9, 10)) \in 1..31

\* The checks of part_001 POST in their order; "" when all pass.
ValidateP1(body) ==
  IF Falsy(body.fleetCode) THEN MsgFleet
  ELSE IF ~isValidDateP1(body.date) THEN MsgDate
  ELSE IF Falsy(body.truckPlate) THEN MsgPlate
  ELSE IF CategoryRejected(body) THEN MsgCategory
  ELSE IF AmountRejected(body) THEN MsgAmount
  ELSE IF LitersRejected(body) THEN MsgLiters
  ELSE ""

\* part_001 insertPayload: no km, which the table later defaults to 0
PayloadP1(body) ==
  [date           |-> body.date,
   truck_plate    |-> body.truckPlate,
   km             |-> Num(0),
   category       |-> body.category,
   amount         |-> body.amount,
   liters         |-> LitersStored(body),
   invoice_number |-> IF Falsy(body.invoiceNumber) THEN JNull
                      ELSE JStr(Trim(ToStr(body.invoiceNumber))),
   note           |-> IF Falsy(body.note) THEN JNull ELSE body.note]

POSTP1Outcome(body, fail) ==
  LET err == ValidateP1(body)
  IN  IF err # "" THEN Outcome(errorResponse("POSTP1", err, 400, 0), expenses, nextId)
      ELSE LET res == IF fail THEN PgError(StorageDown)
                      ELSE PgRow(PayloadP1(body),
                                 [id |-> ToDigits(nextId),
                                  fleet_code |-> body.fleetCode.s,
                                  created_at |-> nextId])
           IN  IF ~res.ok
                 THEN Outcome(errorResponse("POSTP1", res.error, 500, 1), expenses, nextId)
                 ELSE Outcome(Response("POSTP1", 201, "", <<RowOut(res.row)>>, <<>>, 1),
                              expenses \cup {res.row}, nextId + 1)

Todos == <<"T", "o", "d", "o", "s">>

\* truck && truck !== "Todos"
TruckGiven(truck) == ~Falsy(truck) /\ truck.s # Todos

\* the rows of fleet code f, of truck plate `truck` when one is given
OfFleetTruck(f, truck) ==
  {r \in OfFleet(f) : TruckGiven(truck) => r.truck_plate = truck.s}

\* the sum of Number(row.amount), an amount that is not finite counted as 0
RECURSIVE SumAmount(_)
SumAmount(rows) ==
  IF rows = {} THEN 0
  ELSE LET r == CHOOSE x \in rows : TRUE
       IN  (IF r.amount.k = "num" THEN r.amount.v ELSE 0) + SumAmount(rows \ {r})

\* totalsMap.get(m) || 0 after the forEach over the rows of the data query
TotalOf(rows, m) ==
  SumAmount({r \in rows : monthKey(PgDateOut(r.date)) = m})

\* the series of part_001 for a fleet that has rows: the months from the
\* first to the last, the rows of that range, one point per month
SeriesOfRows(q, fail) ==
  LET known     == OfFleetTruck(q.fleetCode.s, q.truck)
      firstMonth == monthKey(MinDate(known))
      lastMonth  == monthKey(MaxDate(known))
      months     == buildMonthSeries(firstMonth, lastMonth)
      startDate  == firstMonth \o <<"-", "0", "1">>
      endDate    == addMonthsUtc(toMonthStartUtc(lastMonth), 1)
      start      == PgDateIn(startDate)
      end        == PgDateIn(IsoDate10(endDate))
      data       == {r \in OfFleetTruck(q.fleetCode.s, q.truck) :
                       /\ DateOrd(r.date) >= DateOrd(start.date)
                       /\ DateOrd(r.date) < DateOrd(end.date)}
  IN  IF ~endDate.ok THEN errorResponse("GETP1", Unhandled, 500, 2)
      ELSE IF ~start.ok \/ ~end.ok
        THEN errorResponse("GETP1", "invalid input for type date", 500, 3)
      ELSE IF fail = "data" THEN errorResponse("GETP1", StorageDown, 500, 3)
      ELSE Response("GETP1", 200, "",
                    [i \in 1..Len(months) |->
                       [month |-> months[i], total |-> TotalOf(data, months[i])]],
                    <<>>, 3)

\* a group=month GET without the early return for a fleet without rows: the
\* range of a missing date is computed and the RangeError of toISOString()
\* escapes
GETGroupMonthNoReturn(q, fail) ==
  IF fail \in {"min", "max"} THEN errorResponse("GETP1", StorageDown, 500, 2)
  ELSE IF OfFleetTruck(q.fleetCode.s, q.truck) = {}
    THEN errorResponse("GETP1", Unhandled, 500, 2)
  ELSE SeriesOfRows(q, fail)

\* GET of part_001 with group=month; fail names the query that fails
GETGroupMonth(q, fail) ==
  IF fail \in {"min", "max"} THEN errorResponse("GETP1", StorageDown, 500, 2)
  ELSE IF OfFleetTruck(q.fleetCode.s, q.truck) = {}
    THEN Response("GETP1", 200, "", <<>>, <<>>, 2)
  ELSE SeriesOfRows(q, fail)

\* the rows the data query of the series returns
SeriesData(q) ==
  LET known == OfFleetTruck(q.fleetCode.s, q.truck)
      start == PgDateIn(monthKey(MinDate(known)) \o <<"-", "0", "1">>)
      end   == PgDateIn(IsoDate10(addMonthsUtc(toMonthStartUtc(monthKey(MaxDate(known))), 1)))
  IN  {r \in known : /\ DateOrd(r.date) >= DateOrd(start.date)
                     /\ DateOrd(r.date) < DateOrd(end.date)}

\* the orders in which a query without order clause may return a set of rows
Orders(rows) ==
  {o \in [1..Cardinality(rows) -> rows] : \A i, j \in DOMAIN o : o[i] = o[j] => i = j}

\* totalsMap.get(m) || 0 after the forEach over the rows in the order they were
\* returned: Number additions, one per row of month m
RECURSIVE TotalInOrder(_, _)
TotalInOrder(data, m) ==
  IF data = <<>> THEN DZero
  ELSE LET n     == Len(data)
           row   == data[n]
           sofar == TotalInOrder(SubSeq(data, 1, n - 1), m)
       IN  IF monthKey(PgDateOut(row.date)) # m THEN sofar
           ELSE DoubleAdd(sofar, IF row.amount.k = "num" THEN DoubleOfTenths(row.amount.v)
                                 ELSE DZero)

\* GET of part_001 with group=month, the totals as the Numbers the handler
\* computes from the rows in the order `data`
GETGroupMonthInOrder(q, fail, data) ==
  LET r == GETGroupMonth(q, fail)
  IN  IF r.status # 200 THEN r
      ELSE [r EXCEPT !.data = [i \in 1..Len(r.data) |->
                                 [month |-> r.data[i].month,
                                  total |-> TotalInOrder(data, r.data[i].month)]]]

\* GET of part_001 without group=month: the list
GETList(q, fail) ==
  LET range == IF Falsy(q.month) THEN NormNull ELSE normalizeMonthRange(q.month.s)
      start == PgDateIn(range.start)
      end   == PgDateIn(range.end)
      rows  == {r \in OfFleetTruck(q.fleetCode.s, q.truck) :
                  ~Falsy(q.month) => /\ DateOrd(r.date) >= DateOrd(start.date)
                                     /\ DateOrd(r.date) < DateOrd(end.date)}
  IN  IF range.kind = "throw" THEN errorResponse("GETP1", Unhandled, 500, 0)
      ELSE IF ~Falsy(q.month) /\ range.kind = "null"
        THEN errorResponse("GETP1", MsgMonth, 400, 0)
      ELSE IF ~Falsy(q.month) /\ (~start.ok \/ ~end.ok)
        THEN errorResponse("GETP1", "invalid input for type date", 500, 1)
      ELSE IF fail # "none" THEN errorResponse("GETP1", StorageDown, 500, 1)
      ELSE Response("GETP1", 200, "", OrderDesc(rows), <<>>, 1)

GROUPMONTH == <<"m", "o", "n", "t", "h">>

GETP1Outcome(q, fail) ==
  IF Falsy(q.fleetCode) THEN errorResponse("GETP1", MsgFleet, 400, 0)
  ELSE IF q.group.t = "string" /\ q.group.s = GROUPMONTH THEN GETGroupMonth(q, fail)
  ELSE GETList(q, fail)

(***************************************************************************)
(* page.tsx (second revision): the monthly series of the dashboard         *)
(***************************************************************************)

\* the rank of a character in a.localeCompare(b), for digits and "-"
CharRank(c) == IF c = "-" THEN 0 ELSE DigitVal(c) + 1

RECURSIVE StrLess(_, _)
StrLess(a, b) ==
  IF b = <<>> THEN FALSE
  ELSE IF a = <<>> THEN TRUE
  ELSE IF a[1] # b[1] THEN CharRank(a[1]) < CharRank(b[1])
  ELSE StrLess(Tail(a), Tail(b))

RECURSIVE SortPoints(_)
SortPoints(points) ==
  IF points = {} THEN <<>>
  ELSE LET p == CHOOSE x \in points : \A y \in points \ {x} : StrLess(x.month, y.month)
       IN  <<p>> \o SortPoints(points \ {p})

\* useMemo monthlySeries: one point per month that has a row in src
\* (the totals are those of rows whose amount is a number)
monthlySeries(seriesExpenses, truckFilter) ==
  LET src  == IF truckFilter = Todos THEN seriesExpenses
              ELSE {e \in seriesExpenses : e.truck_plate = truckFilter}
      keys == {monthKey(PgDateOut(e.date)) : e \in src}
      acc  == {[month |-> k,
                total |-> TotalOf(src, k),
                fuel  |-> TotalOf({e \in src : e.category = FUEL}, k),
                maintenance |-> TotalOf({e \in src : e.category # FUEL}, k)] : k \in keys}
  IN  SortPoints(acc)

(***************************************************************************)
(* Inputs                                                                  *)
(***************************************************************************)

DateText(y, m, d) == PgDateOut([y |-> y, m |-> m, d |-> d])

\* the month key YYYY-MM of the glossary
MonthText(y, m) == PadStart(y, 4) \o <<"-">> \o PadStart(m, 2)

FleetA == <<"A">>

FleetB == <<"B">>

Fleets == {FleetA, FleetB}

PlateP == <<"P">>

PlateQ == <<"Q">>

Plates == {PlateP, PlateQ}

Ids == {JStr(ToDigits(i)) : i \in 1..MaxId}

Body(f, d, p, c, l) ==
  [fleetCode |-> JStr(f), date |-> JStr(d), truckPlate |-> JStr(p),
   km |-> JNum(1000), category |-> JStr(c), amount |-> JNum(105),
   liters |-> l, invoiceNumber |-> JUndefined, note |-> JUndefined]

\* bodies that pass every check of route.ts; 1970-05 and 2024-03 are 647
\* months apart
BaseBodies ==
  {Body(f, d, PlateP, FUEL, JUndefined) :
     f \in Fleets, d \in {DateText(2024, 3, 10), DateText(1970, 5, 20)}}
  \cup {Body(FleetA, DateText(2024, 3, 10), PlateP, MAINTENANCE, JUndefined),
        Body(FleetA, DateText(2024, 3, 10), PlateP, FUEL, JNum(400)),
        Body(FleetA, DateText(2024, 3, 10), PlateQ, FUEL, JUndefined)}

FuelBody == Body(FleetA, DateText(2024, 3, 10), PlateP, FUEL, JUndefined)

MaintenanceBody == Body(FleetA, DateText(2024, 3, 10), PlateP, MAINTENANCE, JUndefined)

\* one field of FuelBody replaced
Deviations ==
  {<<"fleetCode", JUndefined>>, <<"fleetCode", JStr(<<>>)>>,
   <<"date", JUndefined>>,
   <<"date", JStr(<<"2", "0", "2", "4", "-", "3", "-", "1", "0">>)>>,
   <<"date", JStr(DateText(2024, 13, 1))>>,
   <<"truckPlate", JStr(<<>>)>>,
   <<"km", JUndefined>>, <<"km", JNull>>, <<"km", JStr(<<>>)>>,
   <<"km", JNum(-10)>>, <<"km", JNum(0)>>, <<"km", JStr(<<"x">>)>>,
   <<"km", JStr(<<"1", "0", ",", "5">>)>>,
   <<"category", JStr(<<"o", "i", "l">>)>>, <<"category", JUndefined>>,
   <<"amount", JNum(0)>>, <<"amount", JNum(-105)>>, <<"amount", JNull>>,
   <<"amount", JUndefined>>, <<"amount", JStr(<<"x">>)>>,
   <<"amount", JStr(<<"1", "0", ",", "5">>)>>,
   <<"amount", JStr(<<"1", "0", ".", "5">>)>>,
   <<"amount", JStr(<<"0">>)>>, <<"amount", JStr(<<"-", "5">>)>>,
   <<"amount", JStr(<<"N", "a", "N">>)>>,
   <<"invoiceNumber", JStr(<<" ", "7", " ">>)>>,
   <<"note", JStr(<<"n">>)>>}

\* the liters of FuelBody and of MaintenanceBody replaced
LitersInputs ==
  {JNum(0), JNum(-400), JNull, JStr(<<>>), JStr(<<"x">>),
   JStr(<<"4", "0", ",", "5">>)}

DeviantBodies ==
  {[FuelBody EXCEPT ![dv[1]] = dv[2]] : dv \in Deviations}
  \cup {[b EXCEPT !.liters = l] : b \in {FuelBody, MaintenanceBody}, l \in LitersInputs}
  \cup {[MaintenanceBody EXCEPT !.km = JUndefined]}

Bodies == BaseBodies \cup DeviantBodies

WithId(b, id) ==
  [id |-> id, fleetCode |-> b.fleetCode, date |-> b.date,
   truckPlate |-> b.truckPlate, km |-> b.km, category |-> b.category,
   amount |-> b.amount, liters |-> b.liters,
   invoiceNumber |-> b.invoiceNumber, note |-> b.note]

\* the deviations of FuelBody sent to PUT
PutDeviations ==
  {dv \in Deviations :
     dv \in {<<"fleetCode", JUndefined>>, <<"date", JStr(DateText(2024, 13, 1))>>,
             <<"truckPlate", JStr(<<>>)>>, <<"km", JUndefined>>, <<"km", JNum(-10)>>,
             <<"category", JStr(<<"o", "i", "l">>)>>,
             <<"amount", JNum(0)>>, <<"amount", JStr(<<"x">>)>>,
             <<"invoiceNumber", JStr(<<" ", "7", " ">>)>>}}

PutBodies ==
  {WithId(b, id) :
     b \in {[FuelBody EXCEPT ![dv[1]] = dv[2]] : dv \in PutDeviations}
           \cup {[FuelBody EXCEPT !.liters = JNum(0)],
                 [MaintenanceBody EXCEPT !.liters = JStr(<<"x">>)],
                 FuelBody, MaintenanceBody,
                 Body(FleetB, DateText(2024, 3, 10), PlateP, FUEL, JUndefined),
                 Body(FleetA, DateText(2024, 3, 10), PlateQ, FUEL, JNum(400))},
     id \in Ids}
  \cup {WithId(FuelBody, JUndefined)}

DeleteBodies ==
  {[id |-> id, fleetCode |-> f] :
     id \in Ids \cup {JUndefined}, f \in {JStr(x) : x \in Fleets} \cup {JUndefined}}

\* the month parameter of a GET
MonthParams ==
  {JNull,
   JStr(MonthText(2024, 3)), JStr(MonthText(1970, 5)), JStr(MonthText(2024, 12)),
   JStr(MonthText(2024, 13)), JStr(MonthText(2024, 0)), JStr(MonthText(0, 3)),
   JStr(MonthText(50, 3)), JStr(MonthText(9999, 12)),
   JStr(<<"2", "0", "2", "4">>), JStr(<<"x", "-", "0", "3">>),
   JStr(<<"2", "0", "2", "4", "-", "x">>),
   JStr(<<"9", "9", "9", "9", "9", "9", "-", "0", "1">>)}

GetQueries ==
  {[fleetCode |-> JStr(FleetA), month |-> m, mode |-> JStr(MONTH), truck |-> JNull] :
     m \in MonthParams}
  \cup {[fleetCode |-> JStr(FleetB), month |-> JStr(MonthText(1970, 5)),
         mode |-> JStr(MONTH), truck |-> JNull]}
  \cup {[fleetCode |-> JStr(f), month |-> m, mode |-> JNull, truck |-> JNull] :
          f \in Fleets, m \in {JNull, JStr(MonthText(2024, 3))}}
  \cup {[fleetCode |-> JStr(FleetA), month |-> JNull, mode |-> JNull, truck |-> t] :
          t \in {JStr(Todos), JStr(PlateP)}}
  \cup {[fleetCode |-> JNull, month |-> JNull, mode |-> JNull, truck |-> JNull]}

ListQueries ==
  {[fleetCode |-> JStr(FleetA), group |-> JNull, truck |-> JNull, month |-> m] :
     m \in MonthParams}
  \cup {[fleetCode |-> JStr(f), group |-> JNull, truck |-> t, month |-> m] :
          f \in Fleets, t \in {JStr(Todos), JStr(PlateP)},
          m \in {JNull, JStr(MonthText(2024, 3))}}
  \cup {[fleetCode |-> JNull, group |-> JNull, truck |-> JNull, month |-> JNull]}

\* bodies of part_001 POST for the series: 1970-05, 2024-01, 2024-03
SeriesBodies ==
  {[fleetCode |-> JStr(f), date |-> JStr(d), truckPlate |-> JStr(p),
    category |-> JStr(FUEL), amount |-> JNum(1000), liters |-> JUndefined,
    invoiceNumber |-> JUndefined, note |-> JUndefined] :
     f \in Fleets,
     d \in {DateText(2024, 1, 15), DateText(2024, 3, 10), DateText(1970, 5, 20)},
     p \in Plates}
  \cup
  {[fleetCode |-> JStr(FleetA), date |-> JStr(d), truckPlate |-> JStr(PlateP),
    category |-> JStr(FUEL), amount |-> a, liters |-> JUndefined,
    invoiceNumber |-> JUndefined, note |-> JUndefined] :
     d \in {DateText(2024, 3, 10), DateText(2024, 13, 1)},
     a \in {JNum(500), JNum(0)}}

\* bodies of part_001 POST dated in the years 999 and 1000
EarlyBodies ==
  {[fleetCode |-> JStr(f), date |-> JStr(d), truckPlate |-> JStr(p),
    category |-> JStr(FUEL), amount |-> a, liters |-> JUndefined,
    invoiceNumber |-> JUndefined, note |-> JUndefined] :
     f \in Fleets,
     d \in {DateText(999, 12, 31), DateText(1000, 1, 15)},
     p \in Plates, a \in {JNum(1000), JNum(500)}}

\* texts handed to normalizeMonthRange
NormYears == {0, 1, 50, 99, 100, 999, 1970, 2024, 9999}

NormInputs ==
  {MonthText(y, m) : y \in NormYears, m \in 0..13}
  \cup {<<"2", "0", "2", "4">>, <<"x", "-", "0", "3">>,
        <<"2", "0", "2", "4", "-", "x">>, <<"2", "0", "2", "4", "-", "3">>,
        <<"2", "0", "2", "4", "-", "0", "3", "-", "1", "5">>}

SeriesQueries ==
  {[fleetCode |-> f, group |-> JStr(GROUPMONTH), truck |-> t, month |-> JNull] :
     f \in {JStr(x) : x \in Fleets} \cup {JNull},
     t \in {JNull, JStr(Todos)} \cup {JStr(x) : x \in Plates}}

\* bodies of part_001 POST with the amounts 0.1, 0.2 and 0.3
CentBodies ==
  {[fleetCode |-> JStr(FleetA), date |-> JStr(d), truckPlate |-> JStr(PlateP),
    category |-> JStr(FUEL), amount |-> JNum(a), liters |-> JUndefined,
    invoiceNumber |-> JUndefined, note |-> JUndefined] :
     d \in {DateText(2024, 3, 10), DateText(2024, 1, 15)}, a \in {1, 2, 3}}

OrderQuery ==
  [fleetCode |-> JStr(FleetA), group |-> JStr(GROUPMONTH), truck |-> JNull,
   month |-> JNull]

\* the bodies of two updates that differ in every column
PutA ==
  [Body(FleetA, DateText(2024, 3, 10), PlateP, FUEL, JNum(400)) EXCEPT
     !.note = JStr(<<"n">>)]

PutB ==
  [Body(FleetA, DateText(2024, 1, 15), PlateQ, MAINTENANCE, JUndefined) EXCEPT
     !.km = JNum(0), !.amount = JNum(500), !.invoiceNumber = JStr(<<"7">>)]

ConcurrentPutBodies ==
  {WithId(b, id) : b \in {PutA, PutB}, id \in Ids}
  \cup {WithId([PutA EXCEPT !.amount = JNum(0)], JStr(<<"1">>)),
        WithId([PutA EXCEPT !.fleetCode = JStr(FleetB)], JStr(<<"1">>))}

\* the bodies of the POST requests of other callers
ConcurrentBodies ==
  {Body(FleetA, d, PlateP, FUEL, JUndefined) :
     d \in {DateText(2024, 3, 10), DateText(2024, 1, 15)}}

(***************************************************************************)
(* page.tsx (second revision, lines 830..1604): the fleet code, the list   *)
(* and its filters, save and delete.  A request in flight is an element of *)
(* pending; requests that are equal are one element.                       *)
(***************************************************************************)

ALL == <<"A", "L", "L">>

\* monthFromDate(): the month of the day the page is opened
ThisMonth == MonthText(2024, 3)

NoRequest == [kind |-> "none"]

\* the state after useState(...), before the effects ran; stored is the value
\* of the key fleetCode in localStorage, expensesOf the request whose response
\* set expenses
PageInit ==
  [mounted |-> FALSE, stored |-> JNull,
   fleetCode |-> JNull, fleetCodeInput |-> <<>>, isFleetModalOpen |-> FALSE,
   monthMode |-> ALL, selectedMonth |-> ThisMonth, availableMonths |-> <<>>,
   expenses |-> <<>>, seriesExpenses |-> <<>>,
   loading |-> FALSE, monthlyLoading |-> FALSE, error |-> "",
   pending |-> {}, expensesOf |-> NoRequest]

\* what the functions of one render close over
Closure(p) ==
  [fleetCode |-> p.fleetCode, monthMode |-> p.monthMode,
   selectedMonth |-> p.selectedMonth]

\* the URL of loadExpenses: fleetCode, and mode and month in mode MONTH
ListRequest(c) ==
  [kind |-> "list",
   q |-> [fleetCode |-> c.fleetCode,
          month |-> IF c.monthMode = MONTH THEN JStr(c.selectedMonth) ELSE JNull,
          mode  |-> IF c.monthMode = MONTH THEN JStr(MONTH) ELSE JNull,
          truck |-> JNull]]

SeriesRequest(c) ==
  [kind |-> "series",
   q |-> [fleetCode |-> c.fleetCode, month |-> JNull, mode |-> JNull, truck |-> JNull]]

\* loadExpenses() of a render with closure c, up to its await
loadExpenses(p, c) ==
  IF Falsy(c.fleetCode) THEN p
  ELSE [p EXCEPT !.error = "", !.loading = TRUE,
                 !.pending = @ \cup {ListRequest(c)}]

\* loadMonthlySeries() of a render with closure c, up to its await
loadMonthlySeries(p, c) ==
  IF Falsy(c.fleetCode) THEN p
  ELSE [p EXCEPT !.monthlyLoading = TRUE, !.pending = @ \cup {SeriesRequest(c)}]

\* the effects on [fleetCode, monthMode, selectedMonth] and on [fleetCode]
\* after a render in which a dependency changed from the state `before`
Effects(before, p) ==
  LET listed == IF Closure(before) # Closure(p) THEN loadExpenses(p, Closure(p)) ELSE p
  IN  IF before.fleetCode # p.fleetCode THEN loadMonthlySeries(listed, Closure(p))
      ELSE listed

\* the effect of the mount: the stored fleet code, or the modal
mountEffect(p) ==
  IF ~Falsy(p.stored)
    THEN [p EXCEPT !.mounted = TRUE, !.fleetCode = p.stored,
                   !.fleetCodeInput = p.stored.s]
    ELSE [p EXCEPT !.mounted = TRUE, !.isFleetModalOpen = TRUE]

\* a fleet code submit that persists the input as it was typed
handleFleetSubmitRaw(p) ==
  IF Trim(p.fleetCodeInput) = <<>> THEN p
  ELSE [p EXCEPT !.stored = JStr(p.fleetCodeInput),
                 !.fleetCode = JStr(Trim(p.fleetCodeInput)),
                 !.isFleetModalOpen = FALSE]

handleFleetSubmit(p) ==
  IF Trim(p.fleetCodeInput) = <<>> THEN p
  ELSE [p EXCEPT !.stored = JStr(Trim(p.fleetCodeInput)),
                 !.fleetCode = JStr(Trim(p.fleetCodeInput)),
                 !.isFleetModalOpen = FALSE]

MsgPageKm == "KM deve ser um numero maior ou igual a zero"

MsgPageAmount == "Valor deve ser maior que zero"

MsgPageLiters == "Litros deve ser maior que zero"

\* the body handleSave sends for the form, the id apart
SaveBody(p, form) ==
  LET liters == NumberOfStr(ReplaceComma(form.liters))
  IN  [fleetCode     |-> p.fleetCode,
       date          |-> JStr(form.date),
       truckPlate    |-> JStr(Trim(form.truckPlate)),
       km            |-> JNum(NumberOfStr(ReplaceComma(form.km)).v),
       category      |-> JStr(form.category),
       amount        |-> JNum(NumberOfStr(ReplaceComma(form.amount)).v),
       liters        |-> IF form.category = FUEL /\ form.liters # <<>>
                           THEN JNum(liters.v) ELSE JNull,
       invoiceNumber |-> JStr(Trim(form.invoiceNumber)),
       note          |-> JStr(Trim(form.note))]

\* handleSave() up to its await: the checks of the form, then the request
handleSave(p, form) ==
  LET km     == IF form.km # <<>> THEN NumberOfStr(ReplaceComma(form.km)) ELSE NaN
      amount == NumberOfStr(ReplaceComma(form.amount))
      liters == NumberOfStr(ReplaceComma(form.liters))
  IN  IF Falsy(p.fleetCode) THEN p
      ELSE IF ~IsFiniteNum(km) \/ km.v < 0 THEN [p EXCEPT !.error = MsgPageKm]
      ELSE IF ~IsFiniteNum(amount) \/ amount.v <= 0 THEN [p EXCEPT !.error = MsgPageAmount]
      ELSE IF /\ form.category = FUEL /\ form.liters # <<>>
              /\ (~IsFiniteNum(liters) \/ liters.v <= 0)
        THEN [p EXCEPT !.error = MsgPageLiters]
      ELSE [p EXCEPT !.pending = @ \cup
              {[kind |-> "save", id |-> form.id, body |-> SaveBody(p, form),
                c |-> Closure(p)]}]

\* handleDelete(expenseId) after the confirmation, up to its await
handleDelete(p, expenseId) ==
  IF Falsy(p.fleetCode) THEN p
  ELSE [p EXCEPT !.pending = @ \cup
          {[kind |-> "delete", body |-> [id |-> JStr(expenseId), fleetCode |-> p.fleetCode],
            c |-> Closure(p)]}]

\* loadExpenses() after its await, for the response to request r
listArrives(p, r, response) ==
  IF response.status >= 400
    THEN [p EXCEPT !.error = response.error, !.expenses = <<>>,
                   !.availableMonths = <<>>, !.loading = FALSE,
                   !.pending = @ \ {r}, !.expensesOf = r]
    ELSE [p EXCEPT !.expenses = response.data, !.availableMonths = response.months,
                   !.loading = FALSE, !.pending = @ \ {r}, !.expensesOf = r]

\* loadMonthlySeries() after its await
seriesArrives(p, r, response) ==
  IF response.status >= 400
    THEN [p EXCEPT !.error = response.error, !.seriesExpenses = <<>>,
                   !.monthlyLoading = FALSE, !.pending = @ \ {r}]
    ELSE [p EXCEPT !.seriesExpenses = response.data, !.monthlyLoading = FALSE,
                   !.pending = @ \ {r}]

\* handleSave() and handleDelete() after their await: the error, or the two
\* loads of the render that sent the request
writeArrives(p, r, response) ==
  IF response.status >= 400
    THEN [p EXCEPT !.error = response.error, !.pending = @ \ {r}]
    ELSE loadMonthlySeries(loadExpenses([p EXCEPT !.pending = @ \ {r}], r.c), r.c)

(***************************************************************************)
(* Actions                                                                 *)
(***************************************************************************)

\* the handlers that may run at one time
Handlers == {1, 2}

\* a handler that is not running
NoHandler == [pc |-> "idle"]

Init ==
  /\ expenses = {}
  /\ nextId = 1
  /\ req = NoReq
  /\ resp = NoResp
  /\ inflight = [h \in Handlers |-> NoHandler]
  /\ page = PageInit

Idle == resp.op = "none"

Apply(out) ==
  /\ resp' = out.resp
  /\ expenses' = out.expenses
  /\ nextId' = out.nextId
  /\ UNCHANGED <<inflight, page>>

POST ==
  /\ Idle /\ nextId <= MaxId
  /\ \E body \in Bodies, fail \in BOOLEAN :
       /\ fail => body \in {FuelBody, [FuelBody EXCEPT !.amount = JNum(0)]}
       /\ req' = [op |-> "POST", body |-> body, fail |-> fail]
       /\ Apply(POSTOutcome(body, fail))

PUT ==
  /\ Idle
  /\ \E body \in PutBodies, fail \in BOOLEAN :
       /\ fail => \E id \in Ids : body \in {WithId(FuelBody, id),
                                             WithId([FuelBody EXCEPT !.amount = JNum(0)], id)}
       /\ req' = [op |-> "PUT", body |-> body, fail |-> fail]
       /\ Apply(PUTOutcome(body, fail))

DELETE ==
  /\ Idle
  /\ \E body \in DeleteBodies, fail \in BOOLEAN :
       /\ req' = [op |-> "DELETE", body |-> body, fail |-> fail]
       /\ Apply(DELETEOutcome(body, fail))

GET ==
  /\ Idle
  /\ \E q \in GetQueries, fail \in {"none", "expenses", "min", "max"} :
       /\ fail # "none" => q.month = JNull /\ q.mode = JNull
       /\ req' = [op |-> "GET", q |-> q, fail |-> fail]
       /\ resp' = GETOutcome(q, fail)
       /\ UNCHANGED <<expenses, nextId, inflight, page>>

GETP1List ==
  /\ Idle
  /\ \E q \in ListQueries, fail \in {"none", "data"} :
       /\ fail # "none" => q.month = JNull
       /\ req' = [op |-> "GETP1", q |-> q, fail |-> fail]
       /\ resp' = GETP1Outcome(q, fail)
       /\ UNCHANGED <<expenses, nextId, inflight, page>>

POSTP1 ==
  /\ Idle /\ nextId <= MaxId
  /\ \E body \in SeriesBodies, fail \in BOOLEAN :
       /\ req' = [op |-> "POSTP1", body |-> body, fail |-> fail]
       /\ Apply(POSTP1Outcome(body, fail))

GETP1Series ==
  /\ Idle
  /\ \E q \in SeriesQueries, fail \in {"none", "min", "max", "data"} :
       /\ fail # "none" => q.truck = JNull
       /\ req' = [op |-> "GETP1", q |-> q, fail |-> fail]
       /\ resp' = GETP1Outcome(q, fail)
       /\ UNCHANGED <<expenses, nextId, inflight, page>>

POSTP1Early ==
  /\ Idle /\ nextId <= MaxId
  /\ \E body \in EarlyBodies :
       /\ req' = [op |-> "POSTP1", body |-> body, fail |-> FALSE]
       /\ Apply(POSTP1Outcome(body, FALSE))

\* normalizeMonthRange applied to a month text on its own
Normalize ==
  /\ Idle
  /\ \E month \in NormInputs :
       /\ req' = [op |-> "normalizeMonthRange", month |-> month]
       /\ resp' = Response("normalizeMonthRange", 0, "",
                           normalizeMonthRange(month), <<>>, 0)
       /\ UNCHANGED <<expenses, nextId, inflight, page>>

\* the dashboard of page.tsx: seriesExpenses is the data of an unfiltered GET
\* for the fleet code, monthlySeries its reduction for the truck filter
PageMonthlySeries ==
  /\ Idle
  /\ \E f \in Fleets, truckFilter \in {Todos} \cup Plates :
       /\ req' = [op |-> "monthlySeries", fleetCode |-> f, truckFilter |-> truckFilter]
       /\ resp' = Response("monthlySeries", 200, "",
                           monthlySeries(OfFleet(f), truckFilter), <<>>, 3)
       /\ UNCHANGED <<expenses, nextId, inflight, page>>

\* part_001 POST of amounts with a decimal; three rows of one month are what
\* the order of a sum needs
POSTP1Cents ==
  /\ Idle /\ nextId <= MaxId + 1
  /\ \E body \in CentBodies :
       /\ req' = [op |-> "POSTP1", body |-> body, fail |-> FALSE]
       /\ Apply(POSTP1Outcome(body, FALSE))

\* part_001 GET with group=month; the data query has no order clause, and the
\* storage returns its rows in any order
GETP1SeriesInOrder ==
  /\ Idle
  /\ \E data \in Orders(SeriesData(OrderQuery)) :
       /\ req' = [op |-> "GETP1", q |-> OrderQuery, fail |-> "none"]
       /\ resp' = GETGroupMonthInOrder(OrderQuery, "none", data)
       /\ UNCHANGED <<expenses, nextId, inflight, page>>

\* the caller receives the response
Deliver ==
  /\ ~Idle
  /\ req' = NoReq
  /\ resp' = NoResp
  /\ UNCHANGED <<expenses, nextId, inflight, page>>

\* a POST of another caller, from its request to its response
POSTConcurrent ==
  /\ nextId <= MaxId
  /\ \E body \in ConcurrentBodies :
       LET out == POSTOutcome(body, FALSE)
       IN  expenses' = out.expenses /\ nextId' = out.nextId
  /\ UNCHANGED <<req, resp, inflight, page>>

\* PUT up to its await: the body is validated and the update is sent
PUTCall(h) ==
  /\ inflight[h].pc = "idle"
  /\ \E body \in ConcurrentPutBodies :
       inflight' = [inflight EXCEPT ![h] =
         IF ValidatePut(body) # ""
           THEN [pc |-> "answered", op |-> "PUT", body |-> body,
                 resp |-> PUTOutcome(body, FALSE).resp, applied |-> 0, overlap |-> FALSE]
           ELSE [pc |-> "awaiting", op |-> "PUT", body |-> body,
                 resp |-> NoResp, applied |-> 0, overlap |-> FALSE]]
  /\ UNCHANGED <<expenses, nextId, req, resp, page>>

\* the storage applies the update of handler h, one statement; the handler
\* resumes and answers.  applied is 2 for the update applied last and 1 for
\* one applied before it, overlap tells that another update was waiting then
PUTApply(h) ==
  /\ inflight[h].pc = "awaiting" /\ inflight[h].op = "PUT"
  /\ LET out == PUTOutcome(inflight[h].body, FALSE)
     IN  /\ expenses' = out.expenses
         /\ nextId' = out.nextId
         /\ inflight' = [k \in Handlers |->
              IF k = h
                THEN [inflight[h] EXCEPT !.pc = "answered", !.resp = out.resp,
                                         !.applied = 2,
                                         !.overlap = \E o \in Handlers \ {h} :
                                                       inflight[o].pc = "awaiting"]
              ELSE IF inflight[k].pc = "answered" /\ inflight[k].applied = 2
                THEN [inflight[k] EXCEPT !.applied = 1]
              ELSE inflight[k]]
  /\ UNCHANGED <<req, resp, page>>

\* the response of handler h reaches its caller
Return(h) ==
  /\ inflight[h].pc = "answered"
  /\ inflight' = [inflight EXCEPT ![h] = NoHandler]
  /\ UNCHANGED <<expenses, nextId, req, resp, page>>

Next == POST \/ PUT \/ DELETE \/ GET \/ GETP1List \/ Deliver

Spec == Init /\ [][Next]_vars

NextSeries == POSTP1 \/ GETP1Series \/ PageMonthlySeries \/ Deliver

SpecSeries == Init /\ [][NextSeries]_vars

NextEarly == POSTP1Early \/ GETP1Series \/ Deliver

SpecEarly == Init /\ [][NextEarly]_vars

NextNorm == Normalize \/ Deliver

SpecNorm == Init /\ [][NextNorm]_vars

NextPut ==
  \/ POSTConcurrent
  \/ \E h \in Handlers : PUTCall(h) \/ PUTApply(h) \/ Return(h)

SpecPut == Init /\ [][NextPut]_vars

(***************************************************************************)
(* The page of the second revision against the handlers of route.ts: the   *)
(* server answers a request at the step in which its response arrives.     *)
(***************************************************************************)

\* the user waits while this many requests are in flight
MaxPending == 2

Busy == Cardinality(page.pending) >= MaxPending

\* what the user types into the field of the fleet modal
FleetCodeInputs == {<<" ">>, <<" ", "A", " ">>}

NewForm ==
  [id |-> JUndefined, date |-> DateText(2024, 1, 15), truckPlate |-> <<"P", " ">>,
   km |-> <<"1", "0", "0">>, category |-> FUEL, amount |-> <<"1", "0", ",", "5">>,
   liters |-> <<>>, invoiceNumber |-> <<>>, note |-> <<>>]

\* openEditForm(expense) and the fields typed again, with another date
EditForm(expense) ==
  [NewForm EXCEPT !.id = JStr(expense.id), !.date = DateText(2024, 3, 10)]

\* the forms the user may save: a new one, one without km, an edit of a
\* displayed expense
Forms(p) ==
  {NewForm, [NewForm EXCEPT !.km = <<>>]}
  \cup {EditForm(p.expenses[i]) : i \in 1..Len(p.expenses)}

\* the options of the month select (lines 1179..1190)
MonthOptions(p) ==
  IF p.availableMonths = <<>> THEN {p.selectedMonth}
  ELSE {p.availableMonths[i] : i \in 1..Len(p.availableMonths)}

\* the page is opened: the effect of the mount, then the effects on its state
Mount ==
  /\ ~page.mounted
  /\ page' = Effects(page, mountEffect(page))
  /\ UNCHANGED <<expenses, nextId, req, resp, inflight>>

TypeFleetCode ==
  /\ page.mounted /\ page.isFleetModalOpen
  /\ \E text \in FleetCodeInputs : page' = [page EXCEPT !.fleetCodeInput = text]
  /\ UNCHANGED <<expenses, nextId, req, resp, inflight>>

FleetSubmit ==
  /\ page.mounted /\ page.isFleetModalOpen
  /\ page' = Effects(page, handleFleetSubmit(page))
  /\ UNCHANGED <<expenses, nextId, req, resp, inflight>>

\* setMonthMode of the first select
ChangeMonthMode ==
  /\ page.mounted /\ ~page.isFleetModalOpen /\ ~Busy
  /\ \E m \in {ALL, MONTH} : page' = Effects(page, [page EXCEPT !.monthMode = m])
  /\ UNCHANGED <<expenses, nextId, req, resp, inflight>>

\* setSelectedMonth of the second select, rendered in mode MONTH
ChangeSelectedMonth ==
  /\ page.mounted /\ ~page.isFleetModalOpen /\ ~Busy /\ page.monthMode = MONTH
  /\ \E m \in MonthOptions(page) :
       page' = Effects(page, [page EXCEPT !.selectedMonth = m])
  /\ UNCHANGED <<expenses, nextId, req, resp, inflight>>

Save ==
  /\ page.mounted /\ ~page.isFleetModalOpen /\ ~Busy
  /\ \E form \in Forms(page) : page' = handleSave(page, form)
  /\ UNCHANGED <<expenses, nextId, req, resp, inflight>>

Delete ==
  /\ page.mounted /\ ~page.isFleetModalOpen /\ ~Busy
  /\ \E i \in 1..Len(page.expenses) : page' = handleDelete(page, page.expenses[i].id)
  /\ UNCHANGED <<expenses, nextId, req, resp, inflight>>

\* the response to a list or series request arrives: GET of route.ts answers
\* it, and loadExpenses or loadMonthlySeries resumes after its await
GETArrives ==
  /\ \E r \in page.pending :
       /\ r.kind \in {"list", "series"}
       /\ \E response \in {GETOutcome(r.q, "none")} :
            page' = IF r.kind = "list" THEN listArrives(page, r, response)
                    ELSE seriesArrives(page, r, response)
  /\ UNCHANGED <<expenses, nextId, req, resp, inflight>>

\* POST or PUT of a save is handled and its response arrives
SaveArrives ==
  /\ \E r \in page.pending :
       /\ r.kind = "save"
       /\ Falsy(r.id) => nextId <= MaxId
       /\ \E out \in {IF Falsy(r.id) THEN POSTOutcome(r.body, FALSE)
                       ELSE PUTOutcome(WithId(r.body, r.id), FALSE)} :
              /\ expenses' = out.expenses
              /\ nextId' = out.nextId
              /\ page' = writeArrives(page, r, out.resp)
  /\ UNCHANGED <<req, resp, inflight>>

DeleteArrives ==
  /\ \E r \in page.pending :
       /\ r.kind = "delete"
       /\ \E out \in {DELETEOutcome(r.body, FALSE)} :
              /\ expenses' = out.expenses
              /\ nextId' = out.nextId
              /\ page' = writeArrives(page, r, out.resp)
  /\ UNCHANGED <<req, resp, inflight>>

\* the page is opened again while no save or delete waits for its response:
\* the state is gone, localStorage stays
Reload ==
  /\ page.mounted
  /\ \A r \in page.pending : r.kind \in {"list", "series"}
  /\ page' = [PageInit EXCEPT !.stored = page.stored]
  /\ UNCHANGED <<expenses, nextId, req, resp, inflight>>

NextPage ==
  \/ Mount \/ TypeFleetCode \/ FleetSubmit \/ ChangeMonthMode \/ ChangeSelectedMonth
  \/ Save \/ Delete \/ GETArrives \/ SaveArrives \/ DeleteArrives
  \/ Reload

SpecPage == Init /\ [][NextPage]_vars

\* a record created before the page is opened
POSTEarlier == ~page.mounted /\ POSTConcurrent

\* the list and its filters alone, over records that no longer change
NextList ==
  \/ Mount \/ TypeFleetCode \/ FleetSubmit \/ ChangeMonthMode \/ ChangeSelectedMonth
  \/ GETArrives \/ POSTEarlier

SpecList == Init /\ [][NextList]_vars

(***************************************************************************)
(* page.tsx (first revision, lines 94..676, function Page): the fleet      *)
(* code, 'Trocar frota', the list and the monthly series, against the GET  *)
(* of part_001.  The truck filter stays "Todos".                           *)
(***************************************************************************)

\* the state after useState(...) of Page
Page_Init ==
  [mounted |-> FALSE, stored |-> JNull,
   fleetCode |-> JNull, fleetCodeInput |-> <<>>,
   monthFilterMode |-> ALL, monthFilter |-> ThisMonth,
   expenses |-> <<>>, monthlySeries |-> <<>>,
   loading |-> FALSE, monthlyLoading |-> FALSE, error |-> "",
   pending |-> {}]

\* what loadExpenses and loadMonthlySeries of one render close over
Page_Closure(p) ==
  [fleetCode |-> p.fleetCode, monthFilterMode |-> p.monthFilterMode,
   monthFilter |-> p.monthFilter]

\* loadExpenses() of Page up to its await (lines 140..154)
Page_loadExpenses(p, c) ==
  [p EXCEPT !.loading = TRUE, !.error = "",
            !.pending = @ \cup
              {[kind |-> "list",
                q |-> [fleetCode |-> c.fleetCode, group |-> JNull, truck |-> JNull,
                       month |-> IF c.monthFilterMode = MONTH
                                   THEN JStr(c.monthFilter) ELSE JNull]]}]

\* loadMonthlySeries() of Page up to its await (lines 171..185)
Page_loadMonthlySeries(p, c) ==
  IF Falsy(c.fleetCode) THEN p
  ELSE [p EXCEPT !.monthlyLoading = TRUE,
                 !.pending = @ \cup
                   {[kind |-> "series",
                     q |-> [fleetCode |-> c.fleetCode, group |-> JStr(GROUPMONTH),
                            truck |-> JNull, month |-> JNull]]}]

\* the two effects of lines 127..137 after a render in which a dependency
\* changed from the state `before`
Page_Effects(before, p) ==
  LET listed == IF Page_Closure(before) # Page_Closure(p) /\ ~Falsy(p.fleetCode)
                  THEN Page_loadExpenses(p, Page_Closure(p)) ELSE p
  IN  IF before.fleetCode # p.fleetCode /\ ~Falsy(p.fleetCode)
        THEN Page_loadMonthlySeries(listed, Page_Closure(p))
      ELSE listed

\* the effect of the mount (lines 119..125)
Page_mountEffect(p) ==
  IF ~Falsy(p.stored)
    THEN [p EXCEPT !.mounted = TRUE, !.fleetCode = p.stored,
                   !.fleetCodeInput = p.stored.s]
    ELSE [p EXCEPT !.mounted = TRUE]

\* handleFleetSubmit() of Page (lines 201..206)
Page_handleFleetSubmit(p) ==
  IF Trim(p.fleetCodeInput) = <<>> THEN p
  ELSE [p EXCEPT !.stored = JStr(Trim(p.fleetCodeInput)),
                 !.fleetCode = JStr(Trim(p.fleetCodeInput))]

\* 'Trocar frota'
handleSwitchFleet(p) ==
  [p EXCEPT !.stored = JNull, !.fleetCode = JNull, !.fleetCodeInput = <<>>,
            !.expenses = <<>>, !.monthlySeries = <<>>]

\* loadExpenses() of Page after its await
Page_listArrives(p, r, response) ==
  IF response.status >= 400
    THEN [p EXCEPT !.error = response.error, !.expenses = <<>>,
                   !.loading = FALSE, !.pending = @ \ {r}]
    ELSE [p EXCEPT !.expenses = response.data, !.loading = FALSE,
                   !.pending = @ \ {r}]

\* loadMonthlySeries() of Page after its await
Page_seriesArrives(p, r, response) ==
  IF response.status >= 400
    THEN [p EXCEPT !.error = response.error, !.monthlySeries = <<>>,
                   !.monthlyLoading = FALSE, !.pending = @ \ {r}]
    ELSE [p EXCEPT !.monthlySeries = response.data, !.monthlyLoading = FALSE,
                   !.pending = @ \ {r}]

\* what the user types into the field of the fleet modal of Page
Page_FleetCodeInputs == {<<" ", "A", " ">>, <<"B">>}

\* the records other callers create, through the POST of part_001
SwitchBodies ==
  {[fleetCode |-> JStr(f), date |-> JStr(DateText(2024, 3, 10)),
    truckPlate |-> JStr(PlateP), category |-> JStr(FUEL), amount |-> JNum(1000),
    liters |-> JUndefined, invoiceNumber |-> JUndefined, note |-> JUndefined] :
     f \in Fleets}

Page_InitState ==
  /\ expenses = {}
  /\ nextId = 1
  /\ req = NoReq
  /\ resp = NoResp
  /\ inflight = [h \in Handlers |-> NoHandler]
  /\ page = Page_Init

Page_Mount ==
  /\ ~page.mounted
  /\ page' = Page_Effects(page, Page_mountEffect(page))
  /\ UNCHANGED <<expenses, nextId, req, resp, inflight>>

\* the modal is rendered while fleetCode is null
Page_TypeFleetCode ==
  /\ page.mounted /\ Falsy(page.fleetCode)
  /\ \E text \in Page_FleetCodeInputs : page' = [page EXCEPT !.fleetCodeInput = text]
  /\ UNCHANGED <<expenses, nextId, req, resp, inflight>>

Page_FleetSubmit ==
  /\ page.mounted /\ Falsy(page.fleetCode)
  /\ page' = Page_Effects(page, Page_handleFleetSubmit(page))
  /\ UNCHANGED <<expenses, nextId, req, resp, inflight>>

SwitchFleet ==
  /\ page.mounted /\ ~Falsy(page.fleetCode)
  /\ page' = Page_Effects(page, handleSwitchFleet(page))
  /\ UNCHANGED <<expenses, nextId, req, resp, inflight>>

\* setMonthFilterMode of the month select
Page_ChangeMonthMode ==
  /\ page.mounted /\ ~Falsy(page.fleetCode) /\ ~Busy
  /\ \E m \in {ALL, MONTH} :
       page' = Page_Effects(page, [page EXCEPT !.monthFilterMode = m])
  /\ UNCHANGED <<expenses, nextId, req, resp, inflight>>

Page_ListArrives ==
  /\ \E r \in page.pending :
       /\ r.kind = "list"
       /\ \E response \in {GETP1Outcome(r.q, "none")} :
            page' = Page_listArrives(page, r, response)
  /\ UNCHANGED <<expenses, nextId, req, resp, inflight>>

Page_SeriesArrives ==
  /\ \E r \in page.pending :
       /\ r.kind = "series"
       /\ \E response \in {GETP1Outcome(r.q, "none")} :
            page' = Page_seriesArrives(page, r, response)
  /\ UNCHANGED <<expenses, nextId, req, resp, inflight>>

\* a POST of part_001 by another caller, from its request to its response
POSTP1Concurrent ==
  /\ nextId <= MaxId
  /\ \E body \in SwitchBodies :
       LET out == POSTP1Outcome(body, FALSE)
       IN  expenses' = out.expenses /\ nextId' = out.nextId
  /\ UNCHANGED <<req, resp, inflight, page>>

NextSwitch ==
  \/ Page_Mount \/ Page_TypeFleetCode \/ Page_FleetSubmit \/ SwitchFleet
  \/ Page_ChangeMonthMode \/ Page_ListArrives \/ Page_SeriesArrives
  \/ POSTP1Concurrent

SpecSwitch == Page_InitState /\ [][NextSwitch]_vars

(***************************************************************************)
(* GET of route.ts with its three queries as three reads of the storage    *)
(* (line 163: Promise.all), each at its own moment, while other callers    *)
(* write.                                                                  *)
(***************************************************************************)

\* the list request without a month filter
UnfilteredQuery ==
  [fleetCode |-> JStr(FleetA), month |-> JNull, mode |-> JNull, truck |-> JNull]

Reads == {"expenses", "min", "max"}

\* GET up to its await: the three queries are sent
GETCall(h) ==
  /\ inflight[h].pc = "idle"
  /\ inflight' = [inflight EXCEPT ![h] =
       [pc |-> "reading", op |-> "GET", q |-> UnfilteredQuery, done |-> {},
        data |-> <<>>, minDate |-> <<>>, maxDate |-> <<>>, resp |-> NoResp]]
  /\ UNCHANGED <<expenses, nextId, req, resp, page>>

\* the storage answers one of the three queries of handler h
GETRead(h, which) ==
  /\ inflight[h].pc = "reading" /\ which \notin inflight[h].done
  /\ LET rows == OfFleet(inflight[h].q.fleetCode.s)
         read == [inflight[h] EXCEPT !.done = @ \cup {which}]
     IN  inflight' = [inflight EXCEPT ![h] =
           CASE which = "expenses" -> [read EXCEPT !.data = OrderDesc(rows)]
             [] which = "min"      -> [read EXCEPT !.minDate = MinDate(rows)]
             [] which = "max"      -> [read EXCEPT !.maxDate = MaxDate(rows)]]
  /\ UNCHANGED <<expenses, nextId, req, resp, page>>

\* the three results are there: lines 165..188
GETAnswer(h) ==
  /\ inflight[h].pc = "reading" /\ inflight[h].done = Reads
  /\ inflight' = [inflight EXCEPT ![h] =
       [inflight[h] EXCEPT
          !.pc = "answered",
          !.resp = GETRespond(inflight[h].data, inflight[h].minDate,
                              inflight[h].maxDate)]]
  /\ UNCHANGED <<expenses, nextId, req, resp, page>>

\* a PUT of another caller, from its request to its response
PUTConcurrent ==
  /\ \E body \in ConcurrentPutBodies :
       LET out == PUTOutcome(body, FALSE)
       IN  expenses' = out.expenses /\ nextId' = out.nextId
  /\ UNCHANGED <<req, resp, inflight, page>>

\* a DELETE of another caller, from its request to its response
DELETEConcurrent ==
  /\ \E id \in Ids :
       LET out == DELETEOutcome([id |-> id, fleetCode |-> JStr(FleetA)], FALSE)
       IN  expenses' = out.expenses /\ nextId' = out.nextId
  /\ UNCHANGED <<req, resp, inflight, page>>

\* the handler whose reads are followed; a GET writes nothing, so that
\* another GET at the same time changes nothing for this one
Reader == CHOOSE h \in Handlers : TRUE

NextRead ==
  \/ POSTConcurrent \/ PUTConcurrent \/ DELETEConcurrent
  \/ GETCall(Reader)
  \/ \E which \in Reads : GETRead(Reader, which)
  \/ GETAnswer(Reader)
  \/ Return(Reader)

SpecRead == Init /\ [][NextRead]_vars

NextOrder == POSTP1Cents \/ GETP1SeriesInOrder \/ Deliver

SpecOrder == Init /\ [][NextOrder]_vars

(***************************************************************************)
(* The monthly series (spec 4.2, 8)                                        *)
(***************************************************************************)

\* the calendar month of a stored date, counted from year 0
MonthIndex(date) == date.y * 12 + (date.m - 1)

FirstMonth(rows) ==
  CHOOSE i \in {MonthIndex(r.date) : r \in rows} :
    \A j \in {MonthIndex(r.date) : r \in rows} : i <= j

LastMonth(rows) ==
  CHOOSE i \in {MonthIndex(r.date) : r \in rows} :
    \A j \in {MonthIndex(r.date) : r \in rows} : i >= j

\* the month key YYYY-MM of calendar month mi
KeyOfMonth(mi) == MonthText(mi \div 12, (mi % 12) + 1)

\* a series has exactly the months first..last of rows, once each, ascending
CoversEveryMonth(series, rows) ==
  /\ Len(series) = LastMonth(rows) - FirstMonth(rows) + 1
  /\ \A i \in 1..Len(series) : series[i].month = KeyOfMonth(FirstMonth(rows) + i - 1)

\* the state holds the answer to a group=month request of part_001
SeriesAnswered ==
  /\ resp.op = "GETP1" /\ resp.status = 200
  /\ req.q.group = JStr(GROUPMONTH)

\* the records that request is about: the fleet's, of the truck when given
SeriesRecords == OfFleetTruck(req.q.fleetCode.s, req.q.truck)

\* the state holds the monthlySeries of the dashboard
PageSeriesAnswered == resp.op = "monthlySeries"

PageRecords ==
  {r \in OfFleet(req.fleetCode) :
     req.truckFilter # Todos => r.truck_plate = req.truckFilter}

\* the months of rows from the first to the last are no more than the cap
WithinCap(rows) == LastMonth(rows) - FirstMonth(rows) < MonthCap

\* C1: for a non-empty set of records of a fleet (of one truck plate when
\* given), the monthly series has exactly one point for every calendar month
\* from the month of the earliest record to the month of the latest one,
\* in ascending order, none missing and none repeated.  Stated for the
\* record sets whose months fit the cap of 600, for the series of part_001
\* and for the one of the dashboard.
C1_SeriesCoversEveryMonth ==
  /\ (SeriesAnswered /\ SeriesRecords # {} /\ WithinCap(SeriesRecords))
        => CoversEveryMonth(resp.data, SeriesRecords)
  /\ (PageSeriesAnswered /\ PageRecords # {} /\ WithinCap(PageRecords))
        => CoversEveryMonth(resp.data, PageRecords)

\* the sum of the totals of the points lo..hi of a series
RECURSIVE SumRange(_, _, _)
SumRange(series, lo, hi) ==
  IF lo > hi THEN 0
  ELSE IF lo = hi THEN series[lo].total
  ELSE LET mid == (lo + hi) \div 2
       IN  SumRange(series, lo, mid) + SumRange(series, mid + 1, hi)

SumTotals(series) == SumRange(series, 1, Len(series))

\* C2: the totals of the points of the monthly series add up to the amounts
\* of the records of the fleet (of the truck plate when given) it was built
\* from.  Stated for the record sets whose months fit the cap of 600.
C2_SeriesConservesTotal ==
  (SeriesAnswered /\ SeriesRecords # {} /\ WithinCap(SeriesRecords))
    => SumTotals(resp.data) = SumAmount(SeriesRecords)

\* the records whose date lies in the month a point names
RecordsOfPoint(point, rows) ==
  LET p == SplitParts(point.month)
  IN  {r \in rows : /\ p.a = Num(Units(r.date.y))
                    /\ p.b = Num(Units(r.date.m))}

\* C3: each point of the monthly series carries the sum of the amounts of
\* exactly the records whose date lies in its month, and 0 when there is
\* none.
C3_PointTotals ==
  SeriesAnswered =>
    \A i \in 1..Len(resp.data) :
      resp.data[i].total = SumAmount(RecordsOfPoint(resp.data[i], SeriesRecords))

\* C4: for a fleet (or a fleet and truck plate) without any record, a series
\* request whose storage reads succeed is answered with the empty sequence,
\* not with an error.
C4_EmptySeries ==
  ( /\ resp.op = "GETP1" /\ req.q.group = JStr(GROUPMONTH)
    /\ ~Falsy(req.q.fleetCode) /\ req.fail = "none"
    /\ SeriesRecords = {} )
    => (resp.status = 200 /\ resp.error = "" /\ resp.data = <<>>)

\* C4 witness: an empty series answered while other records are stored
C4_Witness ==
  /\ SeriesAnswered /\ req.fail = "none"
  /\ SeriesRecords = {} /\ expenses # {}
  /\ resp.data = <<>>

\* C5: the walk from the first to the last month takes at most 600 steps, so
\* it returns at most 600 months, whatever the first and the last month.
C5_WalkCapped ==
  (resp.op = "GET" /\ resp.status = 200) => Len(resp.months) <= MonthCap

(***************************************************************************)
(* The month parameter (spec 4.1, 8)                                       *)
(***************************************************************************)

\* a text of the form YYYY-MM
IsMonthShape(text) ==
  /\ Len(text) = 7
  /\ \A i \in {1, 2, 3, 4, 6, 7} : IsDigit(text[i])
  /\ text[5] = "-"

YearOf(text) == DigitsVal(SubSeq(text, 1, 4))

MonthOf(text) == DigitsVal(SubSeq(text, 6, 7))

FirstDay(y, m) == MonthText(y, m) \o <<"-", "0", "1">>

\* C6: for every text YYYY-MM whose month is in 1..12, normalizeMonthRange
\* returns as start the first day of that year and month and as end the
\* first day of the month after it.
C6_MonthRange ==
  ( /\ resp.op = "normalizeMonthRange"
    /\ IsMonthShape(req.month) /\ MonthOf(req.month) \in 1..12 )
    => LET y == YearOf(req.month)
           m == MonthOf(req.month)
       IN  /\ resp.data.kind = "range"
           /\ resp.data.start = FirstDay(y, m)
           /\ resp.data.end = IF m = 12 THEN FirstDay(y + 1, 1)
                              ELSE FirstDay(y, m + 1)

\* the year or the month part is not a number, is zero, or the month is
\* outside 1..12
MonthParamInvalid(text) ==
  LET p == SplitParts(text)
  IN  \/ p.a.k = "nan" \/ p.a.v = 0
      \/ p.b.k = "nan" \/ p.b.v = 0
      \/ p.b.v < Units(1) \/ p.b.v > Units(12)

\* C7: a listing request for one month (mode MONTH) of a fleet that has
\* records, whose month parameter is invalid, is answered with a validation
\* error: no exception escapes and the unfiltered list is never returned.
C7_InvalidMonthRejected ==
  ( /\ resp.op = "GET"
    /\ ~Falsy(req.q.fleetCode) /\ OfFleet(req.q.fleetCode.s) # {}
    /\ req.q.mode = JStr(MONTH)
    /\ req.q.month.t = "string" /\ MonthParamInvalid(req.q.month.s) )
    => resp.status = 400

(***************************************************************************)
(* Validation of create and update (spec 4.3, 4.4, 8)                      *)
(***************************************************************************)

\* the message names a field of the body and that field fails its check
NamesFailingField(body, message) ==
  \/ message = MsgId /\ Falsy(body.id)
  \/ message = MsgFleet /\ Falsy(body.fleetCode)
  \/ message = MsgDate /\ ~isValidDate(body.date)
  \/ message = MsgPlate /\ Falsy(body.truckPlate)
  \/ message = MsgKm /\ KmRejected(body)
  \/ message = MsgCategory /\ CategoryRejected(body)
  \/ message = MsgAmount /\ AmountRejected(body)
  \/ message = MsgLiters /\ LitersRejected(body)

\* C8: a create or update request rejected by validation is answered before
\* any storage call: the stored records are exactly what they were, and the
\* rejection names the field that failed.
C8_RejectionBeforeStorage ==
  [][ (resp'.op \in {"POST", "PUT"} /\ resp'.status = 400)
        => /\ expenses' = expenses /\ nextId' = nextId
           /\ resp'.calls = 0
           /\ NamesFailingField(req'.body, resp'.error) ]_vars

\* C8 witness: a create or update rejected by validation while records are
\* stored
C8_Witness ==
  /\ resp.op \in {"POST", "PUT"} /\ resp.status = 400
  /\ resp.calls = 0 /\ expenses # {}

\* the amount, coerced with "." or "," as decimal separator, is a strictly
\* positive number
StrictlyPositive(amount) ==
  LET n == IF amount.t = "string" THEN NumberOfStr(ReplaceComma(amount.s))
           ELSE ToNumber(amount)
  IN  n.k = "num" /\ n.v > 0

\* the checks made before the one of the amount pass
PassesUntilAmount(op, body) ==
  /\ op = "PUT" => ~Falsy(body.id)
  /\ ~Falsy(body.fleetCode) /\ isValidDate(body.date) /\ ~Falsy(body.truckPlate)
  /\ ~KmRejected(body) /\ ~CategoryRejected(body)

\* C9: a create or update request whose amount is not a strictly positive
\* number (zero, negative, not a number), its other fields passing, is
\* rejected with the validation error of the amount before any storage call.
C9_AmountRejected ==
  ( /\ req.op \in {"POST", "PUT"}
    /\ PassesUntilAmount(req.op, req.body)
    /\ ~StrictlyPositive(req.body.amount) )
    => (resp.status = 400 /\ resp.error = MsgAmount /\ resp.calls = 0)

\* C10: a create request with amount 10.5 and category maintenance, its
\* fleet code, date, truck plate and km valid and the storage working,
\* succeeds whatever its liters field holds, and the stored row has no liters.
C10_MaintenanceIgnoresLiters ==
  ( /\ req.op = "POST" /\ ~req.fail
    /\ req.body.amount = JNum(105)
    /\ req.body.category = JStr(MAINTENANCE)
    /\ PassesUntilAmount("POST", req.body) )
    => (resp.status = 201 /\ resp.data[1].liters = JNull)

(***************************************************************************)
(* The stored records (spec 3, 8)                                          *)
(***************************************************************************)

\* C11: after any sequence of create, update and delete requests, every
\* stored record that has liters present has category fuel.
C11_LitersOnlyOnFuel ==
  \A r \in expenses : r.liters # JNull => r.category = FUEL

\* C11 witness: a maintenance record was created from a request that carried
\* liters 40,5 while a fuel record with liters is stored
C11_Witness ==
  /\ req.op = "POST" /\ resp.status = 201
  /\ req.body.category = JStr(MAINTENANCE)
  /\ req.body.liters = JStr(<<"4", "0", ",", "5">>)
  /\ \E r \in expenses : r.id = resp.data[1].id /\ r.liters = JNull
  /\ \E r \in expenses : r.liters # JNull

\* C12: after any sequence of create, update and delete requests, every
\* stored record has amount > 0, km >= 0 and a category that is fuel or
\* maintenance.
C12_StoredRecordsValid ==
  \A r \in expenses :
    /\ r.amount.k = "num" /\ r.amount.v > 0
    /\ r.km >= 0
    /\ r.category \in CATEGORY_VALUES

\* a text YYYY-MM-DD that names a day of the calendar
CalendarDate(value) == value.t = "string" /\ PgDateIn(value.s).ok

\* C13: create and update reject, with the validation error of the date and
\* before any storage call, every request whose date is not a valid calendar
\* date (a month of 13, a day of 32), its id and fleet code being present.
C13_InvalidDateRejected ==
  ( /\ req.op \in {"POST", "PUT"}
    /\ req.op = "PUT" => ~Falsy(req.body.id)
    /\ ~Falsy(req.body.fleetCode)
    /\ ~CalendarDate(req.body.date) )
    => (resp.status = 400 /\ resp.error = MsgDate /\ resp.calls = 0)

\* km is present and is not a finite number >= 0
KmPresentInvalid(km) ==
  /\ km.t \notin {"undefined", "null"}
  /\ LET n == IF km.t = "string" THEN NumberOfStr(ReplaceComma(km.s))
              ELSE ToNumber(km)
     IN  ~(n.k = "num" /\ n.v >= 0)

\* the checks made before the one of km pass
PassesUntilKm(op, body) ==
  /\ op = "PUT" => ~Falsy(body.id)
  /\ ~Falsy(body.fleetCode) /\ isValidDate(body.date) /\ ~Falsy(body.truckPlate)

\* C14: create and update reject a request on account of km exactly when km
\* is present and is not a finite number >= 0; a request without km that is
\* otherwise valid is not rejected on account of km.
C14_KmOptional ==
  (req.op \in {"POST", "PUT"} /\ PassesUntilKm(req.op, req.body))
    => ((resp.status = 400 /\ resp.error = MsgKm) <=> KmPresentInvalid(req.body.km))

(***************************************************************************)
(* Scoping by fleet code (spec 2, 8)                                       *)
(***************************************************************************)

\* the rows that are not of fleet code f (all the rows when f is missing)
NotOfFleet(rows, f) == {r \in rows : Falsy(f) \/ r.fleet_code # f.s}

\* C15: whatever requests were made before, by whatever fleets, a listing
\* for fleet code F returns only records whose fleet_code is F, and a PUT or
\* DELETE for fleet code F reads and writes no record of another fleet code.
C15_FleetScoped ==
  [][ /\ (resp'.op \in {"GET", "GETP1"} /\ resp'.status = 200)
          => \A i \in 1..Len(resp'.data) :
               resp'.data[i].fleet_code = req'.q.fleetCode.s
      /\ resp'.op \in {"PUT", "DELETE"}
          => NotOfFleet(expenses', req'.body.fleetCode)
               = NotOfFleet(expenses, req'.body.fleetCode) ]_vars

\* C15 witness: a listing answered with records while records of another
\* fleet code are stored
C15_Witness ==
  /\ resp.op = "GET" /\ resp.status = 200 /\ resp.data # <<>>
  /\ \E r \in expenses : r.fleet_code # req.q.fleetCode.s

\* an id no record has: the ids given start at 1
AbsentId == JStr(<<"0">>)

\* C16: a delete request whose fleetCode differs from the fleet_code of the
\* record that has the given id leaves that record stored, and its response
\* is the response of a delete request for an id that does not exist.
C16_DeleteOtherFleet ==
  [][ ( /\ resp'.op = "DELETE" /\ ~req'.fail
        /\ ~Falsy(req'.body.id) /\ ~Falsy(req'.body.fleetCode)
        /\ \E r \in expenses : /\ r.id = req'.body.id.s
                               /\ r.fleet_code # req'.body.fleetCode.s )
        => /\ \A r \in expenses : r.id = req'.body.id.s => r \in expenses'
           /\ resp' = DELETEOutcome([id |-> AbsentId,
                                     fleetCode |-> req'.body.fleetCode],
                                    FALSE).resp ]_vars

\* C16 witness: a delete answered for the id of a record of another fleet code
C16_Witness ==
  /\ resp.op = "DELETE" /\ resp.status = 200
  /\ \E r \in expenses : /\ r.id = req.body.id.s
                         /\ r.fleet_code # req.body.fleetCode.s

\* C17: an update and a delete that pass validation and target a record
\* that is absent, or of another fleet code, are answered with an error
\* response, not with a success.
C17_AbsentTargetIsError ==
  [][ ( /\ resp'.op \in {"PUT", "DELETE"}
        /\ resp'.op = "PUT" => ValidatePut(req'.body) = ""
        /\ ~Falsy(req'.body.id) /\ ~Falsy(req'.body.fleetCode)
        /\ Owned(req'.body.id, req'.body.fleetCode) = {} )
        => resp'.status >= 400 ]_vars

(***************************************************************************)
(* Update, delete and the truck filter (spec 4.4, 6, 8)                    *)
(***************************************************************************)

\* an optional number of the request: absent, or its value
OptionalNumber(x) ==
  IF x.t \in {"undefined", "null"} \/ x = JStr(<<>>) THEN JNull
  ELSE JNum((IF x.t = "string" THEN NumberOfStr(ReplaceComma(x.s)) ELSE ToNumber(x)).v)

\* the record with the id, fleet_code and created_at of old and every other
\* column taken from the request
UpdatedRow(body, old) ==
  [id             |-> old.id,
   fleet_code     |-> old.fleet_code,
   created_at     |-> old.created_at,
   date           |-> PgDateIn(body.date.s).date,
   truck_plate    |-> body.truckPlate.s,
   km             |-> OptionalNumber(body.km).v,
   category       |-> body.category.s,
   amount         |-> PgNumericIn(body.amount).n,
   liters         |-> IF body.category.s = FUEL THEN OptionalNumber(body.liters)
                      ELSE JNull,
   invoice_number |-> IF Falsy(body.invoiceNumber) THEN JNull
                      ELSE JStr(Trim(ToStr(body.invoiceNumber))),
   note           |-> IF Falsy(body.note) THEN JNull ELSE body.note]

C19_DeleteOne ==
  [][ resp'.op = "DELETE"
        => expenses' = IF resp'.status = 200
                         THEN expenses \ {r \in expenses :
                                            /\ r.id = req'.body.id.s
                                            /\ r.fleet_code = req'.body.fleetCode.s}
                         ELSE expenses ]_vars

\* C19 witness: two records were created, one is left, and the delete just
\* answered names the id of the other
C19_Witness ==
  /\ resp.op = "DELETE" /\ resp.status = 200
  /\ nextId = 3 /\ Cardinality(expenses) = 1
  /\ \A r \in expenses : r.id # req.body.id.s

\* C20: a listing request without month that carries a truck plate, other
\* than the value for all trucks, returns exactly the records of the fleet
\* whose truck_plate is that plate.
C20_TruckFilter ==
  ( /\ resp.op \in {"GET", "GETP1"} /\ resp.status = 200
    /\ resp.op = "GETP1" => req.q.group = JNull
    /\ Falsy(req.q.month) /\ TruckGiven(req.q.truck) )
    => {resp.data[i].id : i \in 1..Len(resp.data)}
         = {r.id : r \in {x \in OfFleet(req.q.fleetCode.s) :
                            x.truck_plate = req.q.truck.s}}


(***************************************************************************)
(* The month filter and the order of a listing (spec 4.4)                  *)
(***************************************************************************)

\* the ids of the records of a response
IdsOf(data) == {data[i].id : i \in 1..Len(data)}

\* a listing request: a GET of route.ts, or a GET of part_001 without group
IsListing ==
  /\ resp.op \in {"GET", "GETP1"}
  /\ resp.op = "GETP1" => req.q.group = JNull
  /\ ~Falsy(req.q.fleetCode)

\* C21: a listing request without truck filter that carries a valid month M
\* (normalizeMonthRange(M) is a range from start to end) is answered with
\* exactly the records of the fleet whose date d has start <= d < end.
C21_MonthFilter ==
  ( /\ IsListing /\ ~TruckGiven(req.q.truck)
    /\ req.q.month.t = "string"
    /\ normalizeMonthRange(req.q.month.s).kind = "range" )
    => LET range == normalizeMonthRange(req.q.month.s)
       IN  /\ resp.status = 200
           /\ IdsOf(resp.data)
                = {r.id : r \in InRange(req.q.fleetCode.s,
                                        PgDateIn(range.start).date,
                                        PgDateIn(range.end).date)}


\* the calendar date YYYY-MM-DD of a returned record as one number
DateKey(text) ==
  DigitsVal(SubSeq(text, 1, 4)) * 10000 + DigitsVal(SubSeq(text, 6, 7)) * 100
    + DigitsVal(SubSeq(text, 9, 10))

\* C22: the records of a listing response are in descending order of date,
\* and records of equal date in descending order of creation time.
C22_ListOrder ==
  (IsListing /\ resp.status = 200)
    => \A i, j \in 1..Len(resp.data) :
         i < j => \/ DateKey(resp.data[i].date) > DateKey(resp.data[j].date)
                  \/ /\ DateKey(resp.data[i].date) = DateKey(resp.data[j].date)
                     /\ resp.data[i].created_at >= resp.data[j].created_at

\* C22 witness: a listing of two records of one date, the later created first
C22_Witness ==
  /\ IsListing /\ resp.status = 200 /\ Len(resp.data) = 2
  /\ resp.data[1].date = resp.data[2].date
  /\ resp.data[1].created_at > resp.data[2].created_at


(***************************************************************************)
(* The known months of a fleet (spec 6)                                    *)
(***************************************************************************)

\* C23: a GET answered with success for a fleet that has records returns the
\* known months of the fleet: the month of every record of the fleet is in
\* the returned months, whatever month filter the request carries.
C23_KnownMonths ==
  ( /\ resp.op = "GET" /\ resp.status = 200
    /\ OfFleet(req.q.fleetCode.s) # {} )
    => \A r \in OfFleet(req.q.fleetCode.s) :
         \E i \in 1..Len(resp.months) :
           resp.months[i] = monthKey(PgDateOut(r.date))


(***************************************************************************)
(* The order of the input records (spec 4.2)                               *)
(***************************************************************************)

\* C24: the series answered to a request is the series for every order in
\* which the storage may return the records: it does not depend on that
\* order, and the same request answered again, with no write in between,
\* gets the same series.
C24_OrderIndependent ==
  (resp.op = "GETP1" /\ resp.status = 200)
    => \A data \in Orders(SeriesData(req.q)) :
         GETGroupMonthInOrder(req.q, "none", data).data = resp.data


(***************************************************************************)
(* Concurrent requests (spec 5)                                            *)
(***************************************************************************)

\* two handlers answered updates of one record with success, the update of
\* `first` applied while that of `last` was waiting, that of `last` after it
BothUpdated(first, last) ==
  /\ first # last
  /\ inflight[first].pc = "answered" /\ inflight[last].pc = "answered"
  /\ inflight[first].resp.status = 200 /\ inflight[last].resp.status = 200
  /\ inflight[first].body.id = inflight[last].body.id
  /\ inflight[first].body.fleetCode = inflight[last].body.fleetCode
  /\ inflight[first].overlap
  /\ inflight[first].applied < inflight[last].applied

StorageCallFailed ==
  /\ resp.op \in {"GET", "POST", "PUT", "DELETE"}
  /\ CASE resp.op = "GET"    -> ~Falsy(req.q.fleetCode) /\ req.fail # "none"
       [] resp.op = "POST"   -> Validate(req.body) = "" /\ req.fail
       [] resp.op = "PUT"    -> ValidatePut(req.body) = "" /\ req.fail
       [] resp.op = "DELETE" -> ~Falsy(req.body.id) /\ ~Falsy(req.body.fleetCode)
                                /\ req.fail

\* C26: when a storage call of GET, POST, PUT or DELETE fails, the handler
\* answers with an error response that carries the message of the storage
\* error, and it has sent each of its storage calls once: the one call of
\* POST, PUT and DELETE, the three queries of GET.
C26_StorageErrorSurfaces ==
  StorageCallFailed
    => /\ resp.status = 500
       /\ resp.error = StorageDown
       /\ resp.calls = IF resp.op = "GET" THEN 3 ELSE 1

\* C26 witness: the delete of a stored record failed in the storage, and the
\* record is still stored
C26_Witness ==
  /\ StorageCallFailed /\ resp.op = "DELETE"
  /\ Owned(req.body.id, req.body.fleetCode) # {}


\* the fleet code of a request of the page
FleetOfRequest(r) == IF r.kind \in {"list", "series"} THEN r.q.fleetCode ELSE r.body.fleetCode

\* C27: the page sends a request only while a fleet code is set, every list,
\* series, save or delete request it sends carries the fleet code of the page,
\* and the fleet code it persists is the submitted text, trimmed and not empty
C27_RequestsCarryFleet ==
  [][/\ \A r \in page'.pending \ page.pending :
          ~Falsy(page'.fleetCode) /\ FleetOfRequest(r) = page'.fleetCode
     /\ page'.stored # page.stored =>
          /\ page'.stored = JStr(Trim(page.fleetCodeInput))
          /\ page'.stored.s # <<>>]_vars

\* a save request waits with the fleet code that was typed with blanks around
C27_Witness ==
  /\ page.stored = JStr(FleetA)
  /\ page.fleetCodeInput = <<" ", "A", " ">>
  /\ \E r \in page.pending : r.kind = "save" /\ r.body.fleetCode = JStr(FleetA)
  /\ \E r \in page.pending : r.kind = "list"

\* no list request of the page waits for its response
ListSettled == \A r \in page.pending : r.kind # "list"

\* C28: once the list requests of the page are answered, the expenses it
\* displays are those of the response to the request of the latest month mode
\* and selected month, or equal to them, in whatever order the responses
\* arrived
C28_LatestFilterShown ==
  (~Falsy(page.fleetCode) /\ ListSettled /\ page.expensesOf # NoRequest)
    => \/ page.expensesOf = ListRequest(Closure(page))
       \/ page.expenses = GETOutcome(ListRequest(Closure(page)).q, "none").data

\* C29: in the revision with 'Trocar frota', while no fleet code is set the
\* displayed expenses and monthly series are empty, and every displayed
\* expense is of the fleet code of the page, also when a response requested
\* for the previous fleet arrives after the switch
C29_SwitchClearsFleet ==
  /\ Falsy(page.fleetCode) => page.expenses = <<>> /\ page.monthlySeries = <<>>
  /\ \A i \in 1..Len(page.expenses) :
       ~Falsy(page.fleetCode) => page.expenses[i].fleet_code = page.fleetCode.s

\* C30: in the response to a list request without a month filter, the month
\* of every returned record is one of the months of the same response, also
\* when records are written between the three reads of the handler
C30_MonthsCoverRecords ==
  \A h \in Handlers :
    (inflight[h].pc = "answered" /\ inflight[h].op = "GET") =>
      \A i \in 1..Len(inflight[h].resp.data) :
        \E j \in 1..Len(inflight[h].resp.months) :
          inflight[h].resp.months[j] = monthKey(inflight[h].resp.data[i].date)

====
